---- MODULE Spec2Model ----
(***************************************************************************)
(* Travel-Shield: the ensemble travel health score pipeline of             *)
(* src/models/travel_health_score_predictor.py                             *)
(*   TravelHealthScoreModel._extract_features / predict_score /            *)
(*   _generate_recommendation and                                          *)
(*   TravelScorePredictorService.predict_travel_score.                     *)
(*                                                                         *)
(* Numbers.  Python floats are modelled as exact decimal fixed point:      *)
(*   - feature values are integers counting 1/10000 (0.33 is 3300,         *)
(*     7 is 70000), so that the products of two two-decimal numbers are    *)
(*     exact (0.33 * 0.5 = 0.165 is 1650);                                 *)
(*   - scores, bounds and model predictions are integers counting 1/100    *)
(*     (75.0 is 7500); predictions are multiples of 0.1 so that the        *)
(*     weights 0.50 / 0.30 / 0.20 give exact sums.                         *)
(* Python dicts are functions whose DOMAIN is the set of keys present.     *)
(* A value that may be None is a sequence: << >> is None, <<v>> is v.      *)
(***************************************************************************)
EXTENDS Integers, Sequences, FiniteSets, TLC

VARIABLES
    xgb_model,      \* self.xgb_model : "None" or the kind of object held
    lgb_model,      \* self.lgb_model
    mlp_model,      \* self.mlp_model
    scaler_fitted,  \* hasattr(self.scaler, 'mean_')
    op,             \* the method whose call completed last
    args,           \* the arguments of that call
    features,       \* the list built by _extract_features in that call
    raised,         \* the step of that call that raised, "none" if none did
    escaped,        \* whether that call ended by an exception reaching its caller
    the_predictions, \* the list predictions of predict_score in that call
    pre_clip_score,  \* the local ensemble_score of that call before the clip
    result,         \* what the call returned
    threads,        \* the predict_travel_score requests in flight on the one
                    \* service instance: each request's position and locals
    handlers,       \* src/app.py: the HTTP requests in flight, each handler's
                    \* position, locals and response
    upload_folder   \* src/app.py: the files under UPLOAD_FOLDER, path |-> content

vars == <<xgb_model, lgb_model, mlp_model, scaler_fitted,
          op, args, features, raised, escaped, the_predictions, pre_clip_score,
          result, threads, handlers, upload_folder>>

(***************************************************************************)
(* Python values                                                           *)
(***************************************************************************)

\* the empty dict {}
EmptyDict == [k \in {} |-> 0]

\* None, and a value that is not None
PyNone == << >>
Some(v) == <<v>>
IsNone(o) == Len(o) = 0

\* key in d
HasKey(d, k) == k \in DOMAIN d

\* d.get(k, default)
Get(d, k, default) == IF k \in DOMAIN d THEN d[k] ELSE default

\* a dict built from optional entries: the key is present iff the option is
Entry(k, o) == IF IsNone(o) THEN EmptyDict ELSE (k :> o[1])

\* a two-decimal literal, given in hundredths, as a feature value (1/10000)
Dec(h) == h * 100

\* the product of two feature values
Mul(a, b) == (a * b) \div 10000

\* seq[i] with the source's zero-based index
At0(seq, i) == seq[i + 1]

(***************************************************************************)
(* _extract_features                                                       *)
(***************************************************************************)

\* lines 144-153: NB risk probabilities
NbFeatures(model_outputs) ==
    IF HasKey(model_outputs, "nb")
          /\ HasKey(model_outputs["nb"][1], "probabilities")
    THEN LET probs == model_outputs["nb"][1]["probabilities"]
         IN  << Get(probs, "low", Dec(0)),
                Get(probs, "medium", Dec(0)),
                Get(probs, "high", Dec(0)) >>
    ELSE << Dec(33), Dec(33), Dec(33) >>

\* mutant of BertFeatures: a missing severity defaults to 0.0
BertFeaturesSeverityZero(model_outputs) ==
    IF HasKey(model_outputs, "bert")
          /\ HasKey(model_outputs["bert"][1], "slots")
    THEN LET slots == model_outputs["bert"][1]["slots"]
         IN  << Len(Get(slots, "symptoms", << >>)) * Dec(100),
                Get(slots, "duration", Dec(0)),
                Get(slots, "severity", Dec(0)) >>
    ELSE << Dec(0), Dec(0), Dec(50) >>

\* mutant of BertFeatures: duration and symptom count change places
BertFeaturesSwapped(model_outputs) ==
    IF HasKey(model_outputs, "bert")
          /\ HasKey(model_outputs["bert"][1], "slots")
    THEN LET slots == model_outputs["bert"][1]["slots"]
         IN  << Get(slots, "duration", Dec(0)),
                Len(Get(slots, "symptoms", << >>)) * Dec(100),
                Get(slots, "severity", Dec(50)) >>
    ELSE << Dec(0), Dec(0), Dec(50) >>

\* lines 155-164: BERT slots
BertFeatures(model_outputs) ==
    IF HasKey(model_outputs, "bert")
          /\ HasKey(model_outputs["bert"][1], "slots")
    THEN LET slots == model_outputs["bert"][1]["slots"]
         IN  << Len(Get(slots, "symptoms", << >>)) * Dec(100),
                Get(slots, "duration", Dec(0)),
                Get(slots, "severity", Dec(50)) >>
    ELSE << Dec(0), Dec(0), Dec(50) >>

\* lines 166-174: sentiment
SentimentFeatures(model_outputs) ==
    IF HasKey(model_outputs, "sentiment")
    THEN LET sent_probs ==
                 Get(model_outputs["sentiment"][1], "probabilities", EmptyDict)
         IN  << Get(sent_probs, "fit", Dec(33)),
                Get(model_outputs["sentiment"][1], "confidence", Dec(50)) >>
    ELSE << Dec(33), Dec(50) >>

\* lines 176-183: destination context
DestFeatures(context) ==
    LET dest == Get(context, "destination", EmptyDict)
    IN  << Get(dest, "disease_prevalence", Dec(50)),
           Get(dest, "weather_risk", Dec(30)),
           Get(dest, "altitude_meters", Dec(0)) \div 1000,
           Get(dest, "air_quality_index", Dec(5000)) \div 100 >>

\* lines 185-191: user static features
UserFeatures(context) ==
    LET user == Get(context, "user", EmptyDict)
    IN  << Get(user, "age_group", Dec(300)),
           Get(user, "vaccination_coverage", Dec(70)),
           Get(context, "trip_duration_days", Dec(700)) >>

\* lines 194-195: the positions the first interaction term reads
NbHighIndex == 2
DiseasePrevIndex == 9

\* line 198: the position the second interaction term reads
AgeIndex == 14

\* lines 193-200: the interaction features, from the list built so far
InteractionFeatures(feats, context) ==
    LET user == Get(context, "user", EmptyDict)
        nb_high == At0(feats, NbHighIndex)
        disease_prev == At0(feats, DiseasePrevIndex)
        age == At0(feats, AgeIndex)
        chronic == IF Get(user, "has_chronic_disease", FALSE)
                   THEN Dec(100) ELSE Dec(0)
    IN  << Mul(nb_high, disease_prev),
           Mul(Mul(age, chronic), Dec(10)) >>

\* the step of _extract_features that raises, "none" if none does:
\* 'probabilities' in None and 'slots' in None are TypeErrors,
\* None.get is an AttributeError
ExtractRaises(model_outputs, context) ==
    \/ HasKey(model_outputs, "nb") /\ IsNone(model_outputs["nb"])
    \/ HasKey(model_outputs, "bert") /\ IsNone(model_outputs["bert"])
    \/ HasKey(model_outputs, "sentiment") /\ IsNone(model_outputs["sentiment"])

\* lines 131-202: the feature list (when no step raises)
ExtractFeatures(model_outputs, context) ==
    LET base == NbFeatures(model_outputs) \o BertFeatures(model_outputs)
                  \o SentimentFeatures(model_outputs)
                  \o DestFeatures(context) \o UserFeatures(context)
    IN  base \o InteractionFeatures(base, context)

(***************************************************************************)
(* predict_score                                                           *)
(***************************************************************************)

\* a score literal, given in points, as a score value (1/100)
Pts(n) == n * 100

\* lines 48-52: self.ensemble_weights, in percent
EnsembleWeights == ("xgb" :> 50) @@ ("lgb" :> 30) @@ ("mlp" :> 20)

\* weight * pred, the weight in percent
Weighted(weight, pred) == (weight * pred) \div 100

\* the outcome of a call that may raise: << >> when it raises, <<v>> when it
\* returns v
Raises == << >>
Returns(v) == <<v>>
DidRaise(outcome) == Len(outcome) = 0

\* lines 224-228: the scaler is applied only when it holds fitted statistics;
\* transform raises on a vector it was not fitted for
ScaleRaises(fitted, transform_ok) == fitted /\ ~transform_ok

\* lines 233-248: the slots that are not None, in the order they predict
LoadedSlots(xgb, lgb, mlp) ==
    (IF xgb # "None" THEN <<"xgb">> ELSE << >>)
      \o (IF lgb # "None" THEN <<"lgb">> ELSE << >>)
      \o (IF mlp # "None" THEN <<"mlp">> ELSE << >>)

\* lines 233-248: whether a predict call of a loaded slot raises
PredictRaises(xgb, lgb, mlp, outcome) ==
    \E i \in 1..Len(LoadedSlots(xgb, lgb, mlp)) :
        DidRaise(outcome[LoadedSlots(xgb, lgb, mlp)[i]])

\* lines 231-248: predictions, the list of (name, prediction) pairs
Predictions(xgb, lgb, mlp, outcome) ==
    [i \in 1..Len(LoadedSlots(xgb, lgb, mlp)) |->
        << LoadedSlots(xgb, lgb, mlp)[i],
           outcome[LoadedSlots(xgb, lgb, mlp)[i]][1] >>]

\* lines 231-248: the list predictions when the call ended; it is recorded
\* empty when a step raised before the list was complete
PredictionsMade(step, xgb, lgb, mlp, outcome) ==
    IF step # "none" THEN << >> ELSE Predictions(xgb, lgb, mlp, outcome)

\* the sum of the weights of the slots in predictions
RECURSIVE WeightTotal(_)
WeightTotal(predictions) ==
    IF predictions = << >> THEN 0
    ELSE Get(EnsembleWeights, Head(predictions)[1], 0) + WeightTotal(Tail(predictions))

\* mutant of WeightedSum: the weights of the loaded slots are renormalised to
\* sum to 1
WeightedSumRenormalised(predictions) ==
    IF predictions = << >> THEN 0
    ELSE LET total == WeightTotal(predictions)
             part[i \in 0..Len(predictions)] ==
                 IF i = 0 THEN 0
                 ELSE part[i - 1]
                        + Get(EnsembleWeights, predictions[i][1], 0) * predictions[i][2]
         IN  part[Len(predictions)] \div total

\* lines 252-255: the weighted sum over the predictions
RECURSIVE WeightedSum(_)
WeightedSum(predictions) ==
    IF predictions = << >> THEN 0
    ELSE Weighted(Get(EnsembleWeights, Head(predictions)[1], 0),
                  Head(predictions)[2])
           + WeightedSum(Tail(predictions))

\* mutant of EnsembleScore: with no prediction the score defaults to 0
EnsembleScoreZeroDefault(predictions) ==
    IF predictions # << >> THEN WeightedSum(predictions) ELSE Pts(0)

\* lines 250-257: the ensemble score before clipping
EnsembleScore(predictions) ==
    IF predictions # << >> THEN WeightedSum(predictions) ELSE Pts(75)

\* line 260: np.clip(x, lo, hi)
Clip(x, lo, hi) == IF x < lo THEN lo ELSE IF x > hi THEN hi ELSE x

\* mutant of ClippedScore: the clip is left out
ClippedScoreNoClip(ensemble_score) == ensemble_score

\* line 260: the clipped score
ClippedScore(ensemble_score) == Clip(ensemble_score, Pts(0), Pts(100))

\* mutant of UncertaintyLower: the band is added on both sides
UncertaintyLowerAdded(ensemble_score) == ensemble_score + Pts(10)

\* line 263
UncertaintyLower(ensemble_score) == ensemble_score - Pts(10)

\* mutant of UncertaintyUpper: the upper bound is clipped to the score range
UncertaintyUpperClipped(ensemble_score) ==
    Clip(ensemble_score + Pts(10), Pts(0), Pts(100))

\* mutant of UncertaintyUpper: the band is 5 points wide
UncertaintyUpperNarrow(ensemble_score) == ensemble_score + Pts(5)

\* line 264
UncertaintyUpper(ensemble_score) == ensemble_score + Pts(10)

\* mutant of GenerateRecommendation: the thresholds are exclusive
GenerateRecommendationExclusive(score, upper_bound) ==
    IF score > Pts(80)
    THEN "PROCEED: Low risk. Follow standard travel precautions."
    ELSE IF score > Pts(60)
    THEN IF upper_bound > Pts(70)
         THEN "PROCEED WITH CAUTION: Moderate risk. Extra precautions recommended."
         ELSE "CONSULT DOCTOR: Borderline risk. Medical consultation advised before travel."
    ELSE IF score > Pts(40)
    THEN "POSTPONE: High risk. Significant concerns detected. Consult healthcare provider."
    ELSE "DO NOT TRAVEL: Critical risk. Travel strongly discouraged. Immediate medical attention required."

\* mutant of GenerateRecommendation: the last branch is missing, the
\* function falls off its end
GenerateRecommendationNoElse(score, upper_bound) ==
    IF score >= Pts(80)
    THEN "PROCEED: Low risk. Follow standard travel precautions."
    ELSE IF score >= Pts(60)
    THEN IF upper_bound >= Pts(70)
         THEN "PROCEED WITH CAUTION: Moderate risk. Extra precautions recommended."
         ELSE "CONSULT DOCTOR: Borderline risk. Medical consultation advised before travel."
    ELSE IF score >= Pts(40)
    THEN "POSTPONE: High risk. Significant concerns detected. Consult healthcare provider."
    ELSE "None"

\* lines 318-329
GenerateRecommendation(score, upper_bound) ==
    IF score >= Pts(80)
    THEN "PROCEED: Low risk. Follow standard travel precautions."
    ELSE IF score >= Pts(60)
    THEN IF upper_bound >= Pts(70)
         THEN "PROCEED WITH CAUTION: Moderate risk. Extra precautions recommended."
         ELSE "CONSULT DOCTOR: Borderline risk. Medical consultation advised before travel."
    ELSE IF score >= Pts(40)
    THEN "POSTPONE: High risk. Significant concerns detected. Consult healthcare provider."
    ELSE "DO NOT TRAVEL: Critical risk. Travel strongly discouraged. Immediate medical attention required."

\* lines 303-310: feature_names
FeatureNames ==
    << "nb_low", "nb_medium", "nb_high",
       "symptom_count", "duration", "severity",
       "sentiment_fit", "sentiment_conf",
       "disease_prev", "weather_risk", "altitude", "air_quality",
       "age", "vaccination", "trip_duration",
       "nb_x_disease", "age_x_chronic" >>

\* lines 293-316: (shap_values, feature_names), or (None, None) when the
\* model has no get_booster or the explainer raises; shap is the explainer's
\* outcome
ComputeShapExplanation(xgb, shap) ==
    IF xgb = "booster" THEN << PyNone, PyNone >>
    ELSE IF DidRaise(shap) THEN << PyNone, PyNone >>
    ELSE << Some(shap[1]), Some(FeatureNames) >>

\* lines 266-273: the explanation is asked for only when xgb_model is not
\* None and has a predict attribute (both the Booster and the regressor do)
ShapExplanation(xgb, shap) ==
    IF xgb # "None" THEN ComputeShapExplanation(xgb, shap)
    ELSE << PyNone, PyNone >>

\* mutant of ModelEnsemble: the weighted contributions are stored
ModelEnsembleWeighted(predictions) ==
    [name \in {predictions[i][1] : i \in 1..Len(predictions)} |->
        LET i == CHOOSE j \in 1..Len(predictions) : predictions[j][1] = name
        IN  Weighted(Get(EnsembleWeights, name, 0), predictions[i][2])]

\* lines 286-288: model_ensemble
ModelEnsemble(predictions) ==
    [name \in {predictions[i][1] : i \in 1..Len(predictions)} |->
        LET i == CHOOSE j \in 1..Len(predictions) : predictions[j][1] = name
        IN  predictions[i][2]]

\* mutant of ScoreRecord: a raising explainer is fatal, the record is the
\* error record
ScoreRecordShapFatal(xgb, predictions, shap) ==
    LET ensemble_score == ClippedScore(EnsembleScore(predictions))
        uncertainty_lower == UncertaintyLower(ensemble_score)
        uncertainty_upper == UncertaintyUpper(ensemble_score)
        explanation == ShapExplanation(xgb, shap)
        failed == xgb \notin {"None", "booster"} /\ DidRaise(shap)
    IN  [score |-> IF failed THEN Pts(50) ELSE ensemble_score,
         uncertainty_lower |-> IF failed THEN Pts(40) ELSE uncertainty_lower,
         uncertainty_upper |-> IF failed THEN Pts(60) ELSE uncertainty_upper,
         confidence_interval |-> <<uncertainty_lower, uncertainty_upper>>,
         recommendation |->
            IF failed THEN "Model error. Manual review required."
            ELSE GenerateRecommendation(ensemble_score, uncertainty_upper),
         model_ensemble |-> ModelEnsemble(predictions),
         shap_values |-> explanation[1],
         feature_importance |-> explanation[2]]

\* lines 259-291: the dict predict_score returns, from the predictions
ScoreRecord(xgb, predictions, shap) ==
    LET ensemble_score == ClippedScore(EnsembleScore(predictions))
        uncertainty_lower == UncertaintyLower(ensemble_score)
        uncertainty_upper == UncertaintyUpper(ensemble_score)
        explanation == ShapExplanation(xgb, shap)
    IN  [score |-> ensemble_score,
         uncertainty_lower |-> uncertainty_lower,
         uncertainty_upper |-> uncertainty_upper,
         confidence_interval |-> <<uncertainty_lower, uncertainty_upper>>,
         recommendation |-> GenerateRecommendation(ensemble_score, uncertainty_upper),
         model_ensemble |-> ModelEnsemble(predictions),
         shap_values |-> explanation[1],
         feature_importance |-> explanation[2]]

\* lines 221-248: the step of predict_score whose exception leaves it
PredictScoreRaised(model_outputs, context, xgb, lgb, mlp, fitted, transform_ok, outcome) ==
    IF ExtractRaises(model_outputs, context) THEN "extract"
    ELSE IF ScaleRaises(fitted, transform_ok) THEN "scale"
    ELSE IF PredictRaises(xgb, lgb, mlp, outcome) THEN "predict"
    ELSE "none"

(***************************************************************************)
(* TravelScorePredictorService                                             *)
(***************************************************************************)

\* mutant of Abs: the ranking uses the signed value
AbsSigned(v) == v


\* line 399: abs(v)
Abs(v) == IF v < 0 THEN 0 - v ELSE v

\* line 402: sorted(range(len(shap_abs)), key=..., reverse=True)[:top_k];
\* the sort is stable, so among equal keys the lower index comes first
RECURSIVE TopIndices(_, _, _)
TopIndices(shap_abs, chosen, top_k) ==
    LET left == {i \in 1..Len(shap_abs) : \A j \in 1..Len(chosen) : chosen[j] # i}
    IN  IF top_k = 0 \/ left = {} THEN chosen
        ELSE LET best == CHOOSE i \in left :
                             \A j \in left :
                                 \/ shap_abs[i] > shap_abs[j]
                                 \/ shap_abs[i] = shap_abs[j] /\ i <= j
             IN  TopIndices(shap_abs, Append(chosen, best), top_k - 1)

\* line 393: the default of top_k
TopK == 3

\* lines 393-411
ExtractTopReasons(shap_values, feature_names) ==
    IF shap_values = << >> \/ feature_names = << >> THEN << >>
    ELSE LET shap_abs == [i \in 1..Len(shap_values) |-> Abs(shap_values[i])]
             top_indices == TopIndices(shap_abs, << >>, TopK)
         IN  [n \in 1..Len(top_indices) |->
                 LET idx == top_indices[n]
                 IN  [feature |-> IF idx <= Len(feature_names)
                                  THEN feature_names[idx]
                                  ELSE "feature_" \o ToString(idx - 1),
                      impact |-> shap_values[idx]]]

\* the truth value of a list that may be None
Truthy(o) == ~IsNone(o) /\ o[1] # << >>

\* mutant of NormalRecord: _extract_top_reasons is called unguarded and
\* returns [] for a missing attribution
NormalRecordNoPlaceholder(record) ==
    record
      @@ ("model_version" :> "3.0.1")
      @@ ("timestamp" :> "isoformat")
      @@ ("top_reasons" :>
            IF Truthy(record.shap_values) /\ Truthy(record.feature_importance)
            THEN ExtractTopReasons(record.shap_values[1],
                                   record.feature_importance[1])
            ELSE << >>)

\* lines 369-380: the record of a call in which nothing raised
NormalRecord(record) ==
    record
      @@ ("model_version" :> "3.0.1")
      @@ ("timestamp" :> "isoformat")
      @@ ("top_reasons" :>
            IF Truthy(record.shap_values) /\ Truthy(record.feature_importance)
            THEN ExtractTopReasons(record.shap_values[1],
                                   record.feature_importance[1])
            ELSE <<"Feature importance unavailable">>)

\* line 388: str(e), by the step that raised
ErrorString(step) ==
    IF step = "extract" THEN "argument of type 'NoneType' is not iterable"
    ELSE IF step = "scale" THEN "X has 17 features, but StandardScaler is expecting 20 features as input."
    ELSE "This model instance is not fitted yet."

\* lines 384-391: the record returned when a step raised
FallbackRecord(step) ==
    [score |-> Pts(50),
     uncertainty_lower |-> Pts(40),
     uncertainty_upper |-> Pts(60),
     error |-> ErrorString(step),
     recommendation |-> "Model error. Manual review required.",
     top_reasons |-> <<"Prediction failed - please retry">>]

\* mutant of Catches: the handler catches only the scaler's ValueError
CatchesValueErrorOnly(step) == step = "scale"

\* line 382: the handler catches the exception of every step
Catches(step) == TRUE

(***************************************************************************)
(* Inputs                                                                  *)
(***************************************************************************)

\* the longest symptom list of an input
MaxSymptoms == 2

\* None or a member of S
Opt(S) == {PyNone} \cup {Some(v) : v \in S}

\* the lists of at most MaxSymptoms symptoms
SymptomLists == {[i \in 1..n |-> "symptom"] : n \in 0..MaxSymptoms}

\* nb_output['probabilities'] : any subset of the three buckets
ProbsSet ==
    {Entry("low", l) @@ Entry("medium", m) @@ Entry("high", h) :
        l \in Opt({Dec(10)}), m \in Opt({Dec(60)}), h \in Opt({Dec(30)})}

\* nb_output
NbOutputs ==
    {EmptyDict} \cup {"probabilities" :> p : p \in ProbsSet}

\* bert_output['slots']
SlotsSet ==
    {Entry("symptoms", s) @@ Entry("duration", d) @@ Entry("severity", v) :
        s \in Opt(SymptomLists), d \in Opt({Dec(300)}), v \in Opt({Dec(60)})}

\* bert_output
BertOutputs ==
    {EmptyDict} \cup {"slots" :> s : s \in SlotsSet}

\* sentiment_output
SentimentOutputs ==
    {Entry("probabilities", p) @@ Entry("confidence", c) :
        p \in Opt({"fit" :> Dec(20)}), c \in Opt({Dec(65)})}

\* context['destination']
Destinations ==
    {Entry("disease_prevalence", d) @@ Entry("weather_risk", w)
        @@ Entry("altitude_meters", a) @@ Entry("air_quality_index", q) :
        d \in Opt({Dec(40)}), w \in Opt({Dec(50)}),
        a \in Opt({Dec(50000)}), q \in Opt({Dec(6000)})}

\* context['user']
Users ==
    {Entry("age_group", a) @@ Entry("vaccination_coverage", v)
        @@ Entry("has_chronic_disease", c) :
        a \in Opt({Dec(500)}), v \in Opt({Dec(80)}), c \in Opt(BOOLEAN)}

\* context
Contexts ==
    {Entry("destination", d) @@ Entry("user", u) @@ Entry("trip_duration_days", t) :
        d \in Opt(Destinations), u \in Opt(Users), t \in Opt({Dec(700), Dec(1400)})}

\* model_outputs as a caller of _extract_features may build it: each
\* sub-record absent or a dict
ModelOutputsSet ==
    {Entry("nb", n) @@ Entry("bert", b) @@ Entry("sentiment", s) :
        n \in Opt({Some(x) : x \in NbOutputs}),
        b \in Opt({Some(x) : x \in BertOutputs}),
        s \in Opt({Some(x) : x \in SentimentOutputs})}

\* the __main__ self-test, lines 420-453
MainNbOutput ==
    "probabilities" :> (("low" :> Dec(10)) @@ ("medium" :> Dec(60)) @@ ("high" :> Dec(30)))
MainBertOutput ==
    "slots" :> (("symptoms" :> <<"symptom", "symptom">>) @@ ("duration" :> Dec(300))
                  @@ ("severity" :> Dec(60)))
MainSentimentOutput ==
    ("confidence" :> Dec(65)) @@ ("probabilities" :> ("fit" :> Dec(20)))
MainContext ==
    ("destination" :> (("disease_prevalence" :> Dec(40)) @@ ("weather_risk" :> Dec(50))
                         @@ ("altitude_meters" :> Dec(50000))
                         @@ ("air_quality_index" :> Dec(6000))))
      @@ ("user" :> (("age_group" :> Dec(500)) @@ ("vaccination_coverage" :> Dec(80))
                       @@ ("has_chronic_disease" :> TRUE)))
      @@ ("trip_duration_days" :> Dec(700))
MainModelOutputs ==
    ("nb" :> Some(MainNbOutput)) @@ ("bert" :> Some(MainBertOutput))
      @@ ("sentiment" :> Some(MainSentimentOutput))

(***************************************************************************)
(* The service after construction, and a direct call of _extract_features  *)
(***************************************************************************)

NoResult == EmptyDict

\* no predict_travel_score request and no HTTP request is in flight, and
\* line 21 of src/app.py has made an empty UPLOAD_FOLDER
NoThreads == EmptyDict
NoHandlers == EmptyDict
EmptyFolder == EmptyDict

\* lines 100-129: no artifact on disk, the three default regressors
InitDefaultModels ==
    /\ xgb_model = "default"
    /\ lgb_model = "default"
    /\ mlp_model = "default"
    /\ scaler_fitted = FALSE
    /\ op = "idle"
    /\ args = EmptyDict
    /\ features = << >>
    /\ raised = "none"
    /\ escaped = FALSE
    /\ the_predictions = << >>
    /\ pre_clip_score = 0
    /\ result = NoResult
    /\ threads = NoThreads
    /\ handlers = NoHandlers
    /\ upload_folder = EmptyFolder

\* a call model._extract_features(model_outputs, context)
CallExtractFeatures ==
    /\ op = "idle"
    /\ \E model_outputs \in ModelOutputsSet, context \in Contexts :
        /\ op' = "_extract_features"
        /\ args' = ("model_outputs" :> model_outputs) @@ ("context" :> context)
        /\ IF ExtractRaises(model_outputs, context)
           THEN /\ raised' = "extract"
                /\ escaped' = TRUE
                /\ features' = << >>
           ELSE /\ raised' = "none"
                /\ escaped' = FALSE
                /\ features' = ExtractFeatures(model_outputs, context)
        /\ result' = NoResult
        /\ UNCHANGED <<threads, handlers, upload_folder>>
    /\ UNCHANGED <<xgb_model, lgb_model, mlp_model, scaler_fitted,
                       the_predictions, pre_clip_score>>

\* the caller takes what the call returned (or the exception it raised)
Return ==
    /\ op \notin {"idle", "new"}
    /\ op' = "idle"
    /\ args' = EmptyDict
    /\ features' = << >>
    /\ raised' = "none"
    /\ escaped' = FALSE
    /\ the_predictions' = << >>
    /\ pre_clip_score' = 0
    /\ result' = NoResult
    /\ UNCHANGED <<threads, handlers, upload_folder>>
    /\ UNCHANGED <<xgb_model, lgb_model, mlp_model, scaler_fitted>>

NextExtract == CallExtractFeatures \/ Return

(***************************************************************************)
(* The service with any models in its slots, and calls of its methods      *)
(***************************************************************************)

\* what a slot holds: None, the untrained default regressor of
\* _initialize_default_models, a trained regressor, or (xgb only) the
\* Booster that _load_models reads from xgb_model.pkl
SlotKinds == {"None", "default", "trained"}
XgbKinds == SlotKinds \cup {"booster"}

\* the predictions a trained model may return, in 1/100: below 0, above 100
\* and around the thresholds 40, 60 and 80
Preds == {0 - Pts(50), 3990, Pts(40), 5990, Pts(60), 7990, Pts(80), Pts(150)}

\* predict of an untrained default regressor raises (not fitted); predict of
\* any other model returns a number or raises
PredOutcomes(kind) ==
    IF kind \in {"None", "default"} THEN {Raises}
    ELSE {Raises} \cup {Returns(v) : v \in Preds}

\* the attribution values the explainer may return, one per feature
ShapVectors ==
    { [i \in 1..17 |-> IF i = 3 THEN 0 - 500 ELSE IF i = 9 THEN 300 ELSE i],
      [i \in 1..17 |-> 0] }

\* the explainer returns attribution values or raises
ShapOutcomes == {Raises} \cup {Returns(v) : v \in ShapVectors}

\* the arguments of predict_travel_score: each upstream output is None, an
\* empty dict or the self-test's
NbArgs == {PyNone, Some(EmptyDict), Some(MainNbOutput)}
BertArgs == {PyNone, Some(MainBertOutput)}
SentimentArgs == {PyNone, Some(MainSentimentOutput)}
ContextArgs == {EmptyDict, MainContext}

\* The slots are plain attributes and predict_score tests each of them for
\* None (lines 233, 242, 246), so the service is taken with any combination
\* of empty, untrained and trained slots and a fitted or unfitted scaler.
Init ==
    /\ xgb_model \in XgbKinds
    /\ lgb_model \in SlotKinds
    /\ mlp_model \in SlotKinds
    /\ scaler_fitted \in BOOLEAN
    /\ op = "idle"
    /\ args = EmptyDict
    /\ features = << >>
    /\ raised = "none"
    /\ escaped = FALSE
    /\ the_predictions = << >>
    /\ pre_clip_score = 0
    /\ result = NoResult
    /\ threads = NoThreads
    /\ handlers = NoHandlers
    /\ upload_folder = EmptyFolder

\* lines 204-291: a call model.predict_score(model_outputs, context)
CallPredictScore ==
    /\ op = "idle"
    /\ \E nb \in NbArgs, bert \in BertArgs, sentiment \in SentimentArgs,
          context \in ContextArgs,
          transform_ok \in (IF scaler_fitted THEN BOOLEAN ELSE {TRUE}),
          pred_xgb \in PredOutcomes(xgb_model),
          pred_lgb \in PredOutcomes(lgb_model),
          pred_mlp \in PredOutcomes(mlp_model),
          shap \in ShapOutcomes :
        LET model_outputs == ("nb" :> nb) @@ ("bert" :> bert)
                               @@ ("sentiment" :> sentiment)
            outcome == ("xgb" :> pred_xgb) @@ ("lgb" :> pred_lgb)
                         @@ ("mlp" :> pred_mlp)
            step == PredictScoreRaised(model_outputs, context, xgb_model,
                        lgb_model, mlp_model, scaler_fitted, transform_ok, outcome)
        IN  /\ op' = "predict_score"
            /\ args' = ("model_outputs" :> model_outputs) @@ ("context" :> context)
            /\ features' = IF step = "extract" THEN << >>
                           ELSE ExtractFeatures(model_outputs, context)
            /\ raised' = step
            /\ escaped' = (step # "none")
            /\ the_predictions' = PredictionsMade(step, xgb_model, lgb_model, mlp_model, outcome)
            /\ pre_clip_score' = IF step # "none" THEN 0
                                  ELSE EnsembleScore(Predictions(xgb_model, lgb_model,
                                                                 mlp_model, outcome))
            /\ result' = IF step # "none" THEN NoResult
                         ELSE ScoreRecord(xgb_model,
                                  Predictions(xgb_model, lgb_model, mlp_model, outcome),
                                  shap)
    /\ UNCHANGED <<threads, handlers, upload_folder>>
    /\ UNCHANGED <<xgb_model, lgb_model, mlp_model, scaler_fitted>>

\* mutant of CallPredictTravelScore: the except branch empties the primary
\* slot when a model's predict raised
CallPredictTravelScoreDropsModel ==
    /\ op = "idle"
    /\ \E nb \in NbArgs, bert \in BertArgs, sentiment \in SentimentArgs,
          context \in ContextArgs,
          transform_ok \in (IF scaler_fitted THEN BOOLEAN ELSE {TRUE}),
          pred_xgb \in PredOutcomes(xgb_model),
          pred_lgb \in PredOutcomes(lgb_model),
          pred_mlp \in PredOutcomes(mlp_model),
          shap \in ShapOutcomes :
        LET model_outputs == ("nb" :> nb) @@ ("bert" :> bert)
                               @@ ("sentiment" :> sentiment)
            outcome == ("xgb" :> pred_xgb) @@ ("lgb" :> pred_lgb)
                         @@ ("mlp" :> pred_mlp)
            step == PredictScoreRaised(model_outputs, context, xgb_model,
                        lgb_model, mlp_model, scaler_fitted, transform_ok, outcome)
        IN  /\ op' = "predict_travel_score"
            /\ args' = ("nb_output" :> nb) @@ ("bert_output" :> bert)
                         @@ ("sentiment_output" :> sentiment)
                         @@ ("context" :> <<context>>)
            /\ features' = IF step = "extract" THEN << >>
                           ELSE ExtractFeatures(model_outputs, context)
            /\ raised' = step
            /\ escaped' = (step # "none" /\ ~Catches(step))
            /\ the_predictions' = PredictionsMade(step, xgb_model, lgb_model, mlp_model, outcome)
            /\ pre_clip_score' = IF step # "none" THEN 0
                                  ELSE EnsembleScore(Predictions(xgb_model, lgb_model,
                                                                 mlp_model, outcome))
            /\ result' = IF step = "none"
                         THEN NormalRecord(ScoreRecord(xgb_model,
                                  Predictions(xgb_model, lgb_model, mlp_model, outcome),
                                  shap))
                         ELSE IF Catches(step) THEN FallbackRecord(step)
                         ELSE NoResult
    /\ xgb_model' = (IF raised' = "predict" THEN "None" ELSE xgb_model)
    /\ UNCHANGED <<threads, handlers, upload_folder>>
    /\ UNCHANGED <<lgb_model, mlp_model, scaler_fitted>>

\* lines 343-391: a call service.predict_travel_score(nb_output, bert_output,
\* sentiment_output, context)
CallPredictTravelScore ==
    /\ op = "idle"
    /\ \E nb \in NbArgs, bert \in BertArgs, sentiment \in SentimentArgs,
          context \in ContextArgs,
          transform_ok \in (IF scaler_fitted THEN BOOLEAN ELSE {TRUE}),
          pred_xgb \in PredOutcomes(xgb_model),
          pred_lgb \in PredOutcomes(lgb_model),
          pred_mlp \in PredOutcomes(mlp_model),
          shap \in ShapOutcomes :
        LET model_outputs == ("nb" :> nb) @@ ("bert" :> bert)
                               @@ ("sentiment" :> sentiment)
            outcome == ("xgb" :> pred_xgb) @@ ("lgb" :> pred_lgb)
                         @@ ("mlp" :> pred_mlp)
            step == PredictScoreRaised(model_outputs, context, xgb_model,
                        lgb_model, mlp_model, scaler_fitted, transform_ok, outcome)
        IN  /\ op' = "predict_travel_score"
            /\ args' = ("nb_output" :> nb) @@ ("bert_output" :> bert)
                         @@ ("sentiment_output" :> sentiment)
                         @@ ("context" :> <<context>>)
            /\ features' = IF step = "extract" THEN << >>
                           ELSE ExtractFeatures(model_outputs, context)
            /\ raised' = step
            /\ escaped' = (step # "none" /\ ~Catches(step))
            /\ the_predictions' = PredictionsMade(step, xgb_model, lgb_model, mlp_model, outcome)
            /\ pre_clip_score' = IF step # "none" THEN 0
                                  ELSE EnsembleScore(Predictions(xgb_model, lgb_model,
                                                                 mlp_model, outcome))
            /\ result' = IF step = "none"
                         THEN NormalRecord(ScoreRecord(xgb_model,
                                  Predictions(xgb_model, lgb_model, mlp_model, outcome),
                                  shap))
                         ELSE IF Catches(step) THEN FallbackRecord(step)
                         ELSE NoResult
    /\ UNCHANGED <<threads, handlers, upload_folder>>
    /\ UNCHANGED <<xgb_model, lgb_model, mlp_model, scaler_fitted>>

\* the pairs _generate_recommendation is called with directly, in 1/100
RecScores == {0 - Pts(10), Pts(0), 3999, Pts(40), 5999, Pts(60), 7999, Pts(80), Pts(100)}
RecUppers == {Pts(0), 6999, Pts(70), 7001, Pts(90), Pts(110)}

\* lines 318-329: a call model._generate_recommendation(score, upper_bound)
CallGenerateRecommendation ==
    /\ op = "idle"
    /\ \E score \in RecScores, upper_bound \in RecUppers :
        /\ op' = "_generate_recommendation"
        /\ args' = ("score" :> score) @@ ("upper_bound" :> upper_bound)
        /\ result' = ("recommendation" :> GenerateRecommendation(score, upper_bound))
    /\ features' = << >>
    /\ raised' = "none"
    /\ escaped' = FALSE
    /\ UNCHANGED <<threads, handlers, upload_folder>>
    /\ UNCHANGED <<xgb_model, lgb_model, mlp_model, scaler_fitted,
                   the_predictions, pre_clip_score>>

Next ==
    \/ CallPredictScore
    \/ CallPredictTravelScore
    \/ CallGenerateRecommendation
    \/ Return

Spec == Init /\ [][Next]_vars


SpecExtract == InitDefaultModels /\ [][NextExtract]_vars

(***************************************************************************)
(* Direct calls of _extract_top_reasons                                    *)
(***************************************************************************)

\* the longest list of attribution values of a direct call
MaxShapLen == 4

\* the largest absolute attribution value of a direct call
MaxImpact == 2

\* the attribution lists of a direct call
ShapLists ==
    UNION {[1..n -> (0 - MaxImpact)..MaxImpact] : n \in 0..MaxShapLen}

\* the feature_names of a direct call with n attribution values: none, one
\* name only, or one name per value
NameLists(n) == {SubSeq(FeatureNames, 1, k) : k \in {0, 1, n}}

\* lines 393-411: a call service._extract_top_reasons(shap_values, feature_names)
CallExtractTopReasons ==
    /\ op = "idle"
    /\ \E shap_values \in ShapLists :
         \E feature_names \in NameLists(Len(shap_values)) :
            /\ op' = "_extract_top_reasons"
            /\ args' = ("shap_values" :> shap_values)
                         @@ ("feature_names" :> feature_names)
            /\ result' = ("reasons" :> ExtractTopReasons(shap_values, feature_names))
    /\ features' = << >>
    /\ raised' = "none"
    /\ escaped' = FALSE
    /\ UNCHANGED <<threads, handlers, upload_folder>>
    /\ UNCHANGED <<xgb_model, lgb_model, mlp_model, scaler_fitted,
                   the_predictions, pre_clip_score>>

NextReasons == CallExtractTopReasons \/ Return

SpecReasons == InitDefaultModels /\ [][NextReasons]_vars

(***************************************************************************)
(* Concurrent predict_travel_score requests on one service instance        *)
(***************************************************************************)

\* the number of requests in flight at once
MaxRequests == 2

Requests == 1..MaxRequests

\* the statistics of a fitted scaler (mean_ and scale_ of each feature): a
\* mean of 0.5 and a scale of 2
FittedMean == [i \in 1..17 |-> Dec(50)]
FittedScale == [i \in 1..17 |-> 2]

\* line 225: StandardScaler.transform, (x - mean_) / scale_ per feature
Transform(X) == [i \in 1..Len(X) |-> (X[i] - FittedMean[i]) \div FittedScale[i]]

\* mutant of ScaledFeatures: transform is called whether or not the scaler
\* is fitted
ScaledFeaturesAlways(fitted, X) == Transform(X)

\* lines 224-228: X_scaled
ScaledFeatures(fitted, X) == IF fitted THEN Transform(X) ELSE X

\* lines 233-248: the loaded slots whose predict was called, in order: all
\* of them, or those up to the first whose predict raised
RECURSIVE CalledSlots(_, _)
CalledSlots(slots, outcome) ==
    IF slots = << >> THEN << >>
    ELSE IF DidRaise(outcome[Head(slots)]) THEN <<Head(slots)>>
    ELSE <<Head(slots)>> \o CalledSlots(Tail(slots), outcome)

\* lines 235-247: what each called predict was given
ReceivedByModels(slots, outcome, X_scaled) ==
    [name \in {CalledSlots(slots, outcome)[i] :
                  i \in 1..Len(CalledSlots(slots, outcome))} |-> X_scaled]

\* a request that has not started: position and locals of predict_travel_score
\* and of the predict_score it calls
IdleThread ==
    [pc |-> "idle", nb_output |-> PyNone, context |-> EmptyDict,
     transform_ok |-> TRUE,
     outcome |-> ("xgb" :> Raises) @@ ("lgb" :> Raises) @@ ("mlp" :> Raises),
     shap |-> Raises, X |-> << >>, X_scaled |-> << >>, received |-> EmptyDict,
     predictions |-> << >>, raised |-> "none", result |-> EmptyDict]

\* the upstream outputs a request is made with
ThreadModelOutputs(t) ==
    ("nb" :> t.nb_output) @@ ("bert" :> Some(MainBertOutput))
      @@ ("sentiment" :> Some(MainSentimentOutput))

\* what predict of a slot may do in a request: raise, or return 60 or 150
ThreadPredOutcomes(kind) ==
    IF kind = "None" THEN {Raises}
    ELSE {Raises, Returns(Pts(60)), Returns(Pts(150))}

\* a loaded service (the slots hold trained models, the xgb slot possibly a
\* Booster) and no request in flight
InitConcurrent ==
    /\ xgb_model \in {"trained", "booster"}
    /\ lgb_model \in {"None", "trained"}
    /\ mlp_model \in {"None", "trained"}
    /\ scaler_fitted \in BOOLEAN
    /\ op = "idle"
    /\ args = EmptyDict
    /\ features = << >>
    /\ raised = "none"
    /\ escaped = FALSE
    /\ the_predictions = << >>
    /\ pre_clip_score = 0
    /\ result = NoResult
    /\ threads = [r \in Requests |-> IdleThread]
    /\ handlers = NoHandlers
    /\ upload_folder = EmptyFolder

\* the variables no step of a request writes
ThreadFrame ==
    UNCHANGED <<xgb_model, lgb_model, mlp_model, scaler_fitted, op, args,
                features, raised, escaped, the_predictions, pre_clip_score,
                result, handlers, upload_folder>>

\* lines 343-364: request r enters predict_travel_score and builds
\* model_outputs
StartRequest(r) ==
    /\ threads[r].pc = "idle"
    /\ \E nb \in {PyNone, Some(MainNbOutput)}, context \in ContextArgs :
        threads' = [threads EXCEPT ![r] =
                       [IdleThread EXCEPT !.pc = "extract", !.nb_output = nb,
                                          !.context = context]]
    /\ ThreadFrame

\* line 222: X = self._extract_features(model_outputs, context)
StepExtract(r) ==
    /\ threads[r].pc = "extract"
    /\ LET t == threads[r]
       IN  threads' = [threads EXCEPT ![r] =
              IF ExtractRaises(ThreadModelOutputs(t), t.context)
              THEN [t EXCEPT !.pc = "except", !.raised = "extract"]
              ELSE [t EXCEPT !.pc = "scale",
                             !.X = ExtractFeatures(ThreadModelOutputs(t), t.context)]]
    /\ ThreadFrame

\* lines 224-228: the scaler is read and, when fitted, applied
StepScale(r) ==
    /\ threads[r].pc = "scale"
    /\ \E transform_ok \in (IF scaler_fitted THEN BOOLEAN ELSE {TRUE}) :
        LET t == threads[r]
        IN  threads' = [threads EXCEPT ![r] =
               IF ScaleRaises(scaler_fitted, transform_ok)
               THEN [t EXCEPT !.pc = "except", !.raised = "scale",
                              !.transform_ok = transform_ok]
               ELSE [t EXCEPT !.pc = "predict", !.transform_ok = transform_ok,
                              !.X_scaled = ScaledFeatures(scaler_fitted, t.X)]]
    /\ ThreadFrame

\* mutant of StepPredict: the list predictions is an attribute of the model
\* object, shared by the requests
StepPredictShared(r) ==
    /\ threads[r].pc = "predict"
    /\ \E pred_xgb \in ThreadPredOutcomes(xgb_model),
          pred_lgb \in ThreadPredOutcomes(lgb_model),
          pred_mlp \in ThreadPredOutcomes(mlp_model) :
        LET t == threads[r]
            outcome == ("xgb" :> pred_xgb) @@ ("lgb" :> pred_lgb) @@ ("mlp" :> pred_mlp)
            slots == LoadedSlots(xgb_model, lgb_model, mlp_model)
            received == ReceivedByModels(slots, outcome, t.X_scaled)
        IN  threads' = [q \in Requests |->
               IF q # r
               THEN IF PredictRaises(xgb_model, lgb_model, mlp_model, outcome)
                    THEN threads[q]
                    ELSE [threads[q] EXCEPT !.predictions =
                              Predictions(xgb_model, lgb_model, mlp_model, outcome)]
               ELSE IF PredictRaises(xgb_model, lgb_model, mlp_model, outcome)
               THEN [t EXCEPT !.pc = "except", !.raised = "predict",
                              !.outcome = outcome, !.received = received]
               ELSE [t EXCEPT !.pc = "explain", !.outcome = outcome,
                              !.received = received,
                              !.predictions =
                                 Predictions(xgb_model, lgb_model, mlp_model, outcome)]]
    /\ ThreadFrame

\* lines 231-248: the slots are read and each loaded model predicts from
\* X_scaled
StepPredict(r) ==
    /\ threads[r].pc = "predict"
    /\ \E pred_xgb \in ThreadPredOutcomes(xgb_model),
          pred_lgb \in ThreadPredOutcomes(lgb_model),
          pred_mlp \in ThreadPredOutcomes(mlp_model) :
        LET t == threads[r]
            outcome == ("xgb" :> pred_xgb) @@ ("lgb" :> pred_lgb) @@ ("mlp" :> pred_mlp)
            slots == LoadedSlots(xgb_model, lgb_model, mlp_model)
            received == ReceivedByModels(slots, outcome, t.X_scaled)
        IN  threads' = [threads EXCEPT ![r] =
               IF PredictRaises(xgb_model, lgb_model, mlp_model, outcome)
               THEN [t EXCEPT !.pc = "except", !.raised = "predict",
                              !.outcome = outcome, !.received = received]
               ELSE [t EXCEPT !.pc = "explain", !.outcome = outcome,
                              !.received = received,
                              !.predictions =
                                 Predictions(xgb_model, lgb_model, mlp_model, outcome)]]
    /\ ThreadFrame

\* lines 250-291: the score, the band, the attribution from X_scaled (asked
\* for when xgb_model is not None), the recommendation and the record
StepExplain(r) ==
    /\ threads[r].pc = "explain"
    /\ \E shap \in ShapOutcomes :
        LET t == threads[r]
        IN  threads' = [threads EXCEPT ![r] =
               [t EXCEPT !.pc = "metadata", !.shap = shap,
                         !.received = IF xgb_model # "None"
                                      THEN t.received @@ ("shap" :> t.X_scaled)
                                      ELSE t.received,
                         !.result = ScoreRecord(xgb_model, t.predictions, shap)]]
    /\ ThreadFrame

\* lines 366-380: model_version, timestamp and top_reasons are added and the
\* record is returned
StepMetadata(r) ==
    /\ threads[r].pc = "metadata"
    /\ threads' = [threads EXCEPT ![r] =
           [threads[r] EXCEPT !.pc = "done",
                              !.result = NormalRecord(threads[r].result)]]
    /\ ThreadFrame

\* lines 382-391: the except branch returns the fallback record
StepExcept(r) ==
    /\ threads[r].pc = "except"
    /\ threads' = [threads EXCEPT ![r] =
           [threads[r] EXCEPT !.pc = "done",
                              !.result = FallbackRecord(threads[r].raised)]]
    /\ ThreadFrame

\* the caller of request r has taken the record
FinishRequest(r) ==
    /\ threads[r].pc = "done"
    /\ threads' = [threads EXCEPT ![r] = IdleThread]
    /\ ThreadFrame

NextConcurrent ==
    \E r \in Requests :
        \/ StartRequest(r)
        \/ StepExtract(r)
        \/ StepScale(r)
        \/ StepPredict(r)
        \/ StepExplain(r)
        \/ StepMetadata(r)
        \/ StepExcept(r)
        \/ FinishRequest(r)

SpecConcurrent == InitConcurrent /\ [][NextConcurrent]_vars

(***************************************************************************)
(* Construction: TravelHealthScoreModel.__init__ and _load_models          *)
(***************************************************************************)

\* lines 75-78: the artifact files _load_models looks for under model_dir
ArtifactFiles == {"xgb_model.pkl", "lgb_model.pkl", "mlp_model.pkl", "scaler.pkl"}

\* lines 80-93: a slot after the three loads: the Booster read from
\* xgb_model.pkl, the object unpickled from lgb_model.pkl or mlp_model.pkl,
\* None (lines 55-57) when the file does not exist
LoadedFromFiles(files) ==
    [xgb |-> IF "xgb_model.pkl" \in files THEN "booster" ELSE "None",
     lgb |-> IF "lgb_model.pkl" \in files THEN "trained" ELSE "None",
     mlp |-> IF "mlp_model.pkl" \in files THEN "trained" ELSE "None"]

\* mutant of NeedsDefaultModels: the defaults are made only when both the
\* primary and the secondary model are missing
NeedsDefaultModelsBoth(slots) == slots.xgb = "None" /\ slots.lgb = "None"

\* line 100: self.xgb_model is None or self.lgb_model is None
NeedsDefaultModels(slots) == slots.xgb = "None" \/ slots.lgb = "None"

\* lines 104-129: _initialize_default_models assigns all three slots
InitializeDefaultModels == [xgb |-> "default", lgb |-> "default", mlp |-> "default"]

\* lines 73-102: the slots when _load_models returns
LoadModels(files) ==
    IF NeedsDefaultModels(LoadedFromFiles(files))
    THEN InitializeDefaultModels
    ELSE LoadedFromFiles(files)

\* lines 58, 95-98: the scaler is the unfitted StandardScaler() unless
\* scaler.pkl exists; pickled_fitted says whether the pickled one has mean_
ScalerAfterLoad(files, pickled_fitted) == "scaler.pkl" \in files /\ pickled_fitted

\* before TravelHealthScoreModel() is called: no object yet
InitUnconstructed ==
    /\ xgb_model = "None"
    /\ lgb_model = "None"
    /\ mlp_model = "None"
    /\ scaler_fitted = FALSE
    /\ op = "new"
    /\ args = EmptyDict
    /\ features = << >>
    /\ raised = "none"
    /\ escaped = FALSE
    /\ the_predictions = << >>
    /\ pre_clip_score = 0
    /\ result = NoResult
    /\ threads = NoThreads
    /\ handlers = NoHandlers
    /\ upload_folder = EmptyFolder

\* lines 46-102: TravelHealthScoreModel() with the files found under
\* model_dir; load_model or pickle.load of a file that exists may raise, and
\* then the constructor raises and there is no object
Construct ==
    /\ op = "new"
    /\ \E files \in SUBSET ArtifactFiles, pickled_fitted \in BOOLEAN,
          load_ok \in BOOLEAN :
        /\ (files = {} => load_ok)
        /\ (("scaler.pkl" \notin files \/ ~load_ok) => pickled_fitted)
        /\ args' = ("files" :> files)
        /\ IF load_ok
           THEN /\ op' = "__init__"
                /\ xgb_model' = LoadModels(files).xgb
                /\ lgb_model' = LoadModels(files).lgb
                /\ mlp_model' = LoadModels(files).mlp
                /\ scaler_fitted' = ScalerAfterLoad(files, pickled_fitted)
                /\ raised' = "none"
                /\ escaped' = FALSE
           ELSE /\ op' = "new"
                /\ UNCHANGED <<xgb_model, lgb_model, mlp_model, scaler_fitted>>
                /\ raised' = "load"
                /\ escaped' = TRUE
    /\ features' = << >>
    /\ the_predictions' = << >>
    /\ pre_clip_score' = 0
    /\ result' = NoResult
    /\ UNCHANGED <<threads, handlers, upload_folder>>

NextLoad ==
    \/ Construct
    \/ CallPredictScore
    \/ Return

SpecLoad == InitUnconstructed /\ [][NextLoad]_vars

(***************************************************************************)
(* src/app.py: the upload handlers /analyze-travel-health and              *)
(* /travel-health-score                                                    *)
(***************************************************************************)

\* the number of HTTP requests handled at once
MaxClients == 2

Clients == 1..MaxClients

\* lines 27 and 99: the two upload routes
UploadRoutes == {"/analyze-travel-health", "/travel-health-score"}

\* request.form.get(...): None when the field is absent, else its text
CityFields == {PyNone, Some(""), Some("Pune"), Some("Leh")}

\* the contents a client may upload as its responses file
ResponsesContents == {"answers A", "answers B"}

\* request.files of a request: all three files, or one or all of them missing
UploadedFiles ==
    LET all == [name \in {"responses", "current_city_diet", "destination_city_diet"} |->
                   IF name = "responses" THEN "answers" ELSE "diet sheet"]
    IN  { [name \in present |-> IF name = "responses" THEN content ELSE all[name]] :
            present \in { DOMAIN all, DOMAIN all \ {"responses"},
                          DOMAIN all \ {"current_city_diet"},
                          DOMAIN all \ {"destination_city_diet"}, {} },
            content \in ResponsesContents }

\* lines 34 and 106: not current_city or not destination_city (None and ''
\* are both falsy)
MissingCity(current_city, destination_city) ==
    \/ IsNone(current_city) \/ current_city = Some("")
    \/ IsNone(destination_city) \/ destination_city = Some("")

\* mutant of MissingFiles: the request is refused only when all three files
\* are missing
MissingFilesAll(files) ==
    /\ "responses" \notin DOMAIN files
    /\ "current_city_diet" \notin DOMAIN files
    /\ "destination_city_diet" \notin DOMAIN files

\* lines 38 and 110
MissingFiles(files) ==
    \/ "responses" \notin DOMAIN files
    \/ "current_city_diet" \notin DOMAIN files
    \/ "destination_city_diet" \notin DOMAIN files

\* lines 42-44 and 114-116: the names request.files is indexed with
IndexedFiles == {"responses", "current_city_diet", "destination_city_diet"}

\* lines 46 and 118: os.path.join(UPLOAD_FOLDER, 'responses.json')
ResponsesPath == <<"./uploads", "responses.json">>

\* lines 47-48 and 119-120: os.path.join(UPLOAD_FOLDER, f'{city}_diet.xlsx')
DietPath(city) == <<"./uploads", city, "_diet.xlsx">>

\* FileStorage.save(path): the file at path is replaced
SaveFile(folder, path, content) ==
    [p \in DOMAIN folder \cup {path} |-> IF p = path THEN content ELSE folder[p]]

\* lines 67-76 and 139-154: the prompt names the two cities
Prompt(route, current_city, destination_city) ==
    <<route, current_city, destination_city>>

\* a handler with no request
IdleHandler ==
    [pc |-> "idle", route |-> "", current_city |-> PyNone,
     destination_city |-> PyNone, files |-> EmptyDict, saved |-> {},
     responses_content |-> PyNone, diet_texts |-> << >>, sent |-> PyNone,
     status |-> 0, body |-> ""]

\* the server after start: an upload folder (line 21) and no request
InitApp ==
    /\ xgb_model = "None"
    /\ lgb_model = "None"
    /\ mlp_model = "None"
    /\ scaler_fitted = FALSE
    /\ op = "idle"
    /\ args = EmptyDict
    /\ features = << >>
    /\ raised = "none"
    /\ escaped = FALSE
    /\ the_predictions = << >>
    /\ pre_clip_score = 0
    /\ result = NoResult
    /\ threads = NoThreads
    /\ handlers = [h \in Clients |-> IdleHandler]
    /\ upload_folder = EmptyFolder

\* the variables the handlers do not touch
AppFrame ==
    UNCHANGED <<xgb_model, lgb_model, mlp_model, scaler_fitted, op, args,
                features, raised, escaped, the_predictions, pre_clip_score,
                result, threads>>

\* a POST arrives at one of the two routes
Arrive(h) ==
    /\ handlers[h].pc = "idle"
    /\ \E route \in UploadRoutes, current_city \in CityFields,
          destination_city \in CityFields, files \in UploadedFiles :
        \* a trip named in full is Pune to Leh or Leh to Pune
        /\ (current_city = Some("Leh") => destination_city = Some("Pune"))
        /\ (destination_city = Some("Pune") => current_city = Some("Leh"))
        /\ handlers' = [handlers EXCEPT ![h] =
               [IdleHandler EXCEPT !.pc = "check", !.route = route,
                                   !.current_city = current_city,
                                   !.destination_city = destination_city,
                                   !.files = files]]
    /\ UNCHANGED upload_folder
    /\ AppFrame

\* lines 31-39 and 103-111: the two checks, each answering 400
CheckRequest(h) ==
    /\ handlers[h].pc = "check"
    /\ LET q == handlers[h]
       IN  handlers' = [handlers EXCEPT ![h] =
              IF MissingCity(q.current_city, q.destination_city)
              THEN [q EXCEPT !.pc = "responded", !.status = 400,
                             !.body = "Missing current or destination city"]
              ELSE IF MissingFiles(q.files)
              THEN [q EXCEPT !.pc = "responded", !.status = 400,
                             !.body = "Missing necessary files"]
              ELSE [q EXCEPT !.pc = "save responses"]]
    /\ UNCHANGED upload_folder
    /\ AppFrame

\* lines 42-50 and 114-122: the three files are taken from request.files
\* (a missing one raises KeyError, answered 500 by the except branch) and
\* the responses file is saved to the fixed path
SaveResponses(h) ==
    /\ handlers[h].pc = "save responses"
    /\ LET q == handlers[h]
       IN  IF ~(IndexedFiles \subseteq DOMAIN q.files)
           THEN /\ handlers' = [handlers EXCEPT ![h] =
                       [q EXCEPT !.pc = "responded", !.status = 500,
                                 !.body = "KeyError"]]
                /\ UNCHANGED upload_folder
           ELSE /\ upload_folder' = SaveFile(upload_folder, ResponsesPath,
                                             q.files["responses"])
                /\ handlers' = [handlers EXCEPT ![h] =
                       [q EXCEPT !.pc = "save diets",
                                 !.saved = q.saved \cup {ResponsesPath}]]
    /\ AppFrame

\* lines 51-52 and 123-124: the two diet files are saved under the cities'
\* names
SaveDiets(h) ==
    /\ handlers[h].pc = "save diets"
    /\ LET q == handlers[h]
           current_path == DietPath(q.current_city[1])
           destination_path == DietPath(q.destination_city[1])
       IN  /\ upload_folder' =
                 SaveFile(SaveFile(upload_folder, current_path,
                                   q.files["current_city_diet"]),
                          destination_path, q.files["destination_city_diet"])
           /\ handlers' = [handlers EXCEPT ![h] =
                  [q EXCEPT !.pc = "read responses",
                            !.saved = q.saved \cup {current_path, destination_path}]]
    /\ AppFrame

\* lines 56-57 and 128-129: responses_content is read back from the fixed
\* path
ReadResponses(h) ==
    /\ handlers[h].pc = "read responses"
    /\ handlers' = [handlers EXCEPT ![h] =
           [handlers[h] EXCEPT !.pc = "read diets",
                               !.responses_content = Some(upload_folder[ResponsesPath])]]
    /\ UNCHANGED upload_folder
    /\ AppFrame

\* lines 60-64 and 132-136: the two sheets are read back and turned to CSV;
\* read_excel raises on a file that is no workbook (answered 500)
ReadDiets(h) ==
    /\ handlers[h].pc = "read diets"
    /\ \E excel_ok \in BOOLEAN :
        LET q == handlers[h]
        IN  handlers' = [handlers EXCEPT ![h] =
               IF excel_ok
               THEN [q EXCEPT !.pc = "generate",
                              !.diet_texts =
                                 << upload_folder[DietPath(q.current_city[1])],
                                    upload_folder[DietPath(q.destination_city[1])] >>]
               ELSE [q EXCEPT !.pc = "responded", !.status = 500,
                              !.body = "read_excel error"]]
    /\ UNCHANGED upload_folder
    /\ AppFrame

\* lines 66-95 and 138-170: the prompt and the three texts are sent to the
\* generative service; its reply is answered 200, its exception 500
Generate(h) ==
    /\ handlers[h].pc = "generate"
    /\ \E generate_ok \in BOOLEAN :
        LET q == handlers[h]
            sent == << Prompt(q.route, q.current_city[1], q.destination_city[1]),
                       q.responses_content[1], q.diet_texts[1], q.diet_texts[2] >>
        IN  handlers' = [handlers EXCEPT ![h] =
               IF generate_ok
               THEN [q EXCEPT !.pc = "responded", !.sent = Some(sent),
                              !.status = 200,
                              !.body = IF q.route = "/analyze-travel-health"
                                       THEN "analysis" ELSE "travelHealthScore"]
               ELSE [q EXCEPT !.pc = "responded", !.sent = Some(sent),
                              !.status = 500, !.body = "generate_content error"]]
    /\ UNCHANGED upload_folder
    /\ AppFrame

\* the response has gone to the client
Respond(h) ==
    /\ handlers[h].pc = "responded"
    /\ handlers' = [handlers EXCEPT ![h] = IdleHandler]
    /\ UNCHANGED upload_folder
    /\ AppFrame

NextApp ==
    \E h \in Clients :
        \/ Arrive(h)
        \/ CheckRequest(h)
        \/ SaveResponses(h)
        \/ SaveDiets(h)
        \/ ReadResponses(h)
        \/ ReadDiets(h)
        \/ Generate(h)
        \/ Respond(h)

SpecApp == InitApp /\ [][NextApp]_vars

(***************************************************************************)
(* src/app.py: the JSON handlers /summarize, /generalized-health-score and *)
(* /translate                                                              *)
(***************************************************************************)

\* the objects a JSON body may parse to: any of the fields the handlers
\* read, present or absent
JsonObjects ==
    { Entry("user_id", user_id) @@ Entry("responses", responses)
        @@ Entry("text", text) @@ Entry("to", to) @@ Entry("from", from) :
        user_id \in Opt({"u1"}), responses \in Opt({<< >>, <<"yes">>}),
        text \in Opt({"", "hello"}), to \in Opt({<< >>, <<"fr">>}),
        from \in Opt({"en"}) }

\* request.get_json(): None for the body null, else the object
JsonBodies == {PyNone} \cup {Some(o) : o \in JsonObjects}

\* a response: the status and the JSON body as key and text
Response(status, key, text) == [status |-> status, key |-> key, text |-> text]

\* lines 176-200 and 206-238: user_id = data.get('user_id') comes first and
\* raises AttributeError on None, which the except branch answers 500; then
\* 'if not data'; then the generative call
GenerativeHandler(data, key, generate_ok) ==
    IF IsNone(data)
    THEN Response(500, "error", "'NoneType' object has no attribute 'get'")
    ELSE IF data[1] = EmptyDict
    THEN Response(400, "error", "Invalid JSON data")
    ELSE IF ~generate_ok
    THEN Response(500, "error", "generate_content error")
    ELSE Response(200, key, "generated text")

\* the statuses the translator API may answer with; 0 stands for
\* requests.post raising
TranslatorStatuses == {0, 200, 401}

\* lines 243-300
TranslateHandler(data, api_status) ==
    IF IsNone(data) \/ data[1] = EmptyDict
    THEN Response(400, "error", "Invalid JSON data")
    ELSE LET text_to_translate == IF HasKey(data[1], "text") THEN Some(data[1]["text"])
                                  ELSE PyNone
             to_language == Get(data[1], "to", <<"en">>)
         IN  IF IsNone(text_to_translate) \/ text_to_translate = Some("")
                  \/ Len(to_language) = 0
             THEN Response(400, "error", "Missing 'text' or 'to' in the request")
             ELSE IF api_status = 0
             THEN Response(500, "error", "requests error")
             ELSE IF api_status # 200
             THEN Response(api_status, "error", "Translation API error")
             ELSE Response(200, "translations", "translated text")

\* lines 174-200: a POST to /summarize
CallSummarize ==
    /\ op = "idle"
    /\ \E data \in JsonBodies, generate_ok \in BOOLEAN :
        /\ op' = "/summarize"
        /\ args' = ("data" :> data)
        /\ result' = GenerativeHandler(data, "summary", generate_ok)
    /\ features' = << >>
    /\ raised' = "none"
    /\ escaped' = FALSE
    /\ UNCHANGED <<threads, handlers, upload_folder>>
    /\ UNCHANGED <<xgb_model, lgb_model, mlp_model, scaler_fitted,
                   the_predictions, pre_clip_score>>

\* lines 204-238: a POST to /generalized-health-score
CallHealthScore ==
    /\ op = "idle"
    /\ \E data \in JsonBodies, generate_ok \in BOOLEAN :
        /\ op' = "/generalized-health-score"
        /\ args' = ("data" :> data)
        /\ result' = GenerativeHandler(data, "healthScore", generate_ok)
    /\ features' = << >>
    /\ raised' = "none"
    /\ escaped' = FALSE
    /\ UNCHANGED <<threads, handlers, upload_folder>>
    /\ UNCHANGED <<xgb_model, lgb_model, mlp_model, scaler_fitted,
                   the_predictions, pre_clip_score>>

\* lines 241-300: a POST to /translate
CallTranslate ==
    /\ op = "idle"
    /\ \E data \in JsonBodies, api_status \in TranslatorStatuses :
        /\ op' = "/translate"
        /\ args' = ("data" :> data)
        /\ result' = TranslateHandler(data, api_status)
    /\ features' = << >>
    /\ raised' = "none"
    /\ escaped' = FALSE
    /\ UNCHANGED <<threads, handlers, upload_folder>>
    /\ UNCHANGED <<xgb_model, lgb_model, mlp_model, scaler_fitted,
                   the_predictions, pre_clip_score>>

NextJson ==
    \/ CallSummarize
    \/ CallHealthScore
    \/ CallTranslate
    \/ Return

SpecJson == InitApp /\ [][NextJson]_vars

(***************************************************************************)
(* src/models/sentiment_fitness_classifier.py: classify_fitness and        *)
(* FitnessClassifierService.assess_fitness.  Probabilities and confidences *)
(* are integers counting 1/10000; a division rounds down.                  *)
(***************************************************************************)

\* line 53: FITNESS_CLASSES, indexed from 1
FitnessClasses == <<"fit", "borderline", "unfit">>

\* the number of steps of the grid the base probabilities are taken from
ProbGrid == 20

\* the softmax outputs of the network: three probabilities that sum to 1
BaseProbs ==
    { << p[1] * (10000 \div ProbGrid), p[2] * (10000 \div ProbGrid),
         10000 - (p[1] + p[2]) * (10000 \div ProbGrid) >> :
        p \in {q \in (0..ProbGrid) \X (0..ProbGrid) : q[1] + q[2] <= ProbGrid} }

\* the most keywords of one kind counted in a text
MaxKeywords == 2

\* lines 188-189 and 212-213: np.clip(p, 0, 1) and division by the sum
ClipAndNormalise(p) ==
    LET c == [i \in 1..3 |-> Clip(p[i], 0, 10000)]
    IN  [i \in 1..3 |-> (c[i] * 10000) \div (c[1] + c[2] + c[3])]

\* lines 167-191: two or more negative keywords add 0.15 to unfit and take
\* 0.075 from fit; two or more positive ones add 0.12 to fit and take 0.045
\* from unfit
ApplyLexiconBoosting(negative_count, positive_count, base_probs) ==
    LET n == IF negative_count >= 2 THEN 1 ELSE 0
        p == IF positive_count >= 2 THEN 1 ELSE 0
    IN  ClipAndNormalise(<< base_probs[1] - n * 750 + p * 1200,
                            base_probs[2],
                            base_probs[3] + n * 1500 - p * 450 >>)

\* lines 193-215: a severity above 0.7 adds 0.2 to unfit, an activity level
\* below 0.3 (and not 0, which is falsy) adds 0.16, a recent hospitalization
\* adds 0.12 and takes 0.08 from fit; the signal values are in 1/100
ApplyAdditionalSignals(probs, signals) ==
    LET severe == IF Get(signals, "symptom_severity", 0) > 70 THEN 1 ELSE 0
        inactive == IF Get(signals, "activity_level", 0) # 0
                        /\ Get(signals, "activity_level", 0) < 30 THEN 1 ELSE 0
        hospital == IF Get(signals, "recent_hospitalization", FALSE) THEN 1 ELSE 0
    IN  ClipAndNormalise(<< probs[1] - hospital * 800,
                            probs[2],
                            probs[3] + severe * 2000 + inactive * 1600 + hospital * 1200 >>)

\* lines 136 and 144: np.argmax, the first index of the largest value
ArgMax(p) ==
    CHOOSE i \in 1..3 : /\ \A j \in 1..3 : p[j] <= p[i]
                        /\ \A j \in 1..(i - 1) : p[j] < p[i]

\* line 82: self.escalation_threshold
EscalationThreshold == 4000

\* lines 243-253
ShouldEscalate(label, confidence) ==
    \/ label = "unfit"
    \/ (label = "borderline" /\ confidence > EscalationThreshold)

\* lines 327-336
GetEscalationLevel(label, confidence) ==
    IF label = "unfit" /\ confidence > 7000 THEN "CRITICAL"
    ELSE IF label = "unfit" THEN "HIGH"
    ELSE IF label = "borderline" /\ confidence > 5000 THEN "MEDIUM"
    ELSE "LOW"

\* lines 217-228
FitnessExplanation(mentions_pain, label) ==
    IF label = "unfit"
    THEN IF mentions_pain
         THEN "Negative health indicators detected: severe symptoms mentioned with high confidence"
         ELSE "Health sentiment analysis indicates significant concerns. Multiple warning signals detected."
    ELSE IF label = "borderline"
    THEN "Mixed signals detected: some concerning indicators present but not definitive. Further assessment recommended."
    ELSE "Health indicators appear stable. User reporting manageable or minor symptoms."

\* lines 230-241
FitnessRecommendation(label, confidence) ==
    IF label = "unfit"
    THEN "Immediate medical consultation strongly advised. Postpone travel until cleared by healthcare provider."
    ELSE IF label = "borderline"
    THEN IF confidence > EscalationThreshold
         THEN "Schedule telemedicine consult within 24 hours before travel. Monitor symptoms closely."
         ELSE "Consider consulting healthcare provider. Proceed with extra precautions if traveling."
    ELSE "Monitor symptoms. Follow standard travel health precautions. Emergency contact info prepared."

\* lines 132-146: the probabilities the label is read from: after the
\* lexicon, and after the signals when additional_signals is given and not
\* empty
AdjustedProbs(negative_count, positive_count, base_probs, additional_signals) ==
    LET lexicon == ApplyLexiconBoosting(negative_count, positive_count, base_probs)
    IN  IF Truthy(additional_signals)
        THEN ApplyAdditionalSignals(lexicon, additional_signals[1])
        ELSE lexicon

\* lines 296-314: the dict assess_fitness returns for a FitnessResult
FitnessOutput(mentions_pain, adjusted_probs) ==
    LET label == FitnessClasses[ArgMax(adjusted_probs)]
        confidence == adjusted_probs[ArgMax(adjusted_probs)]
        requires_escalation == ShouldEscalate(label, confidence)
    IN  ("fitness_label" :> label)
          @@ ("confidence" :> confidence)
          @@ ("probabilities" :> adjusted_probs)
          @@ ("explanation" :> FitnessExplanation(mentions_pain, label))
          @@ ("recommendation" :> FitnessRecommendation(label, confidence))
          @@ ("requires_escalation" :> requires_escalation)
          @@ ("escalation_level" :> GetEscalationLevel(label, confidence))
          @@ (IF requires_escalation
              THEN ("safety_warning" :> "High priority: Medical consultation required")
              ELSE EmptyDict)

\* lines 316-325: the dict of the except branch
FitnessErrorOutput ==
    ("fitness_label" :> "borderline")
      @@ ("confidence" :> 0)
      @@ ("probabilities" :> <<3300, 3400, 3300>>)
      @@ ("error" :> "str(e)")
      @@ ("requires_escalation" :> TRUE)
      @@ ("recommendation" :> "Manual review required due to model error")

\* the additional_signals of a call: None, or a dict with any of the three
\* signals
SignalsArgs ==
    {PyNone} \cup
    { Some(Entry("symptom_severity", severity) @@ Entry("activity_level", activity)
             @@ Entry("recent_hospitalization", hospital)) :
        severity \in Opt({50, 90}), activity \in Opt({10, 50}),
        hospital \in Opt({TRUE}) }

\* lines 287-325: a call service.assess_fitness(user_text, additional_signals);
\* the text is given by its keyword counts and whether it mentions pain or
\* fever, the network by its softmax output, and the tokenizer or the
\* network may raise
CallAssessFitness ==
    /\ op = "idle"
    /\ \E negative_count \in 0..MaxKeywords, positive_count \in 0..MaxKeywords,
          mentions_pain \in BOOLEAN, base_probs \in BaseProbs,
          additional_signals \in SignalsArgs, inference_ok \in BOOLEAN :
        /\ (~inference_ok =>
               /\ negative_count = 0 /\ positive_count = 0 /\ ~mentions_pain
               /\ additional_signals = PyNone)
        /\ op' = "assess_fitness"
        /\ args' = ("negative_count" :> negative_count)
                     @@ ("positive_count" :> positive_count)
                     @@ ("base_probs" :> base_probs)
                     @@ ("additional_signals" :> additional_signals)
        /\ raised' = IF inference_ok THEN "none" ELSE "classify"
        /\ result' = IF inference_ok
                     THEN FitnessOutput(mentions_pain,
                              AdjustedProbs(negative_count, positive_count,
                                            base_probs, additional_signals))
                     ELSE FitnessErrorOutput
    /\ features' = << >>
    /\ escaped' = FALSE
    /\ UNCHANGED <<threads, handlers, upload_folder>>
    /\ UNCHANGED <<xgb_model, lgb_model, mlp_model, scaler_fitted,
                   the_predictions, pre_clip_score>>

NextFitness == CallAssessFitness \/ Return

SpecFitness == InitDefaultModels /\ [][NextFitness]_vars

(***************************************************************************)
(* Properties                                                              *)
(***************************************************************************)

\* a call of predict_score or predict_travel_score that returned the record
\* of a prediction (nothing raised)
Predicted ==
    /\ op \in {"predict_score", "predict_travel_score"}
    /\ raised = "none"
    /\ ~escaped

\* the tier a recommendation string names
TierOf(recommendation) ==
    CASE recommendation = "PROCEED: Low risk. Follow standard travel precautions."
           -> "PROCEED"
      [] recommendation = "PROCEED WITH CAUTION: Moderate risk. Extra precautions recommended."
           -> "PROCEED WITH CAUTION"
      [] recommendation = "CONSULT DOCTOR: Borderline risk. Medical consultation advised before travel."
           -> "CONSULT DOCTOR"
      [] recommendation = "POSTPONE: High risk. Significant concerns detected. Consult healthcare provider."
           -> "POSTPONE"
      [] recommendation = "DO NOT TRAVEL: Critical risk. Travel strongly discouraged. Immediate medical attention required."
           -> "DO NOT TRAVEL"
      [] OTHER -> "no tier"

FiveTiers ==
    {"PROCEED", "PROCEED WITH CAUTION", "CONSULT DOCTOR", "POSTPONE", "DO NOT TRAVEL"}

C2_ScoreInRange ==
    Predicted => (Pts(0) <= result.score /\ result.score <= Pts(100))

\* C2 witness: every loaded model predicted 150 and the score is 100
C2_Witness ==
    /\ op = "predict_score"
    /\ Predicted
    /\ DOMAIN result.model_ensemble # {}
    /\ \A name \in DOMAIN result.model_ensemble :
           result.model_ensemble[name] = Pts(150)
    /\ result.score = Pts(100)

\* C3: every record predict_travel_score returns, a prediction or the
\* fallback, has uncertainty_lower <= score <= uncertainty_upper and
\* 0 <= score <= 100.
C3_BandAroundScore ==
    (op = "predict_travel_score" /\ ~escaped) =>
        /\ result.uncertainty_lower <= result.score
        /\ result.score <= result.uncertainty_upper
        /\ Pts(0) <= result.score
        /\ result.score <= Pts(100)

\* C3 witness: a prediction whose raw model output was negative
C3_Witness ==
    /\ op = "predict_travel_score"
    /\ Predicted
    /\ \E name \in DOMAIN result.model_ensemble :
           result.model_ensemble[name] < 0
    /\ result.score = Pts(0)

C5_TierTable ==
    op = "_generate_recommendation" =>
        LET score == args["score"]
            upper == args["upper_bound"]
            tier == TierOf(result["recommendation"])
        IN  /\ score >= Pts(80) => tier = "PROCEED"
            /\ (Pts(60) <= score /\ score < Pts(80) /\ upper >= Pts(70))
                  => tier = "PROCEED WITH CAUTION"
            /\ (Pts(60) <= score /\ score < Pts(80) /\ upper < Pts(70))
                  => tier = "CONSULT DOCTOR"
            /\ (Pts(40) <= score /\ score < Pts(60)) => tier = "POSTPONE"
            /\ score < Pts(40) => tier = "DO NOT TRAVEL"

\* C5 witness: score 79.99 with upper 69.99 gives CONSULT DOCTOR
C5_Witness ==
    /\ op = "_generate_recommendation"
    /\ args["score"] = 7999
    /\ args["upper_bound"] = 6999
    /\ TierOf(result["recommendation"]) = "CONSULT DOCTOR"

\* C6 as claimed: the recommendation of every record predict_travel_score
\* returns is one of the five tier strings.
C6_AlwaysOneOfFiveTiers ==
    (op = "predict_travel_score" /\ ~escaped) =>
        TierOf(result.recommendation) \in FiveTiers

\* C6 as amended: the recommendation of every record predict_travel_score
\* returns is one of the five tier strings when the record is a prediction,
\* and 'Model error. Manual review required.' when it is the fallback.
C6_FiveTiersOrManualReview ==
    (op = "predict_travel_score" /\ ~escaped) =>
        IF "error" \in DOMAIN result
        THEN result.recommendation = "Model error. Manual review required."
        ELSE TierOf(result.recommendation) \in FiveTiers

\* C6 witness: a prediction in the lowest tier
C6_Witness ==
    /\ op = "predict_travel_score"
    /\ Predicted
    /\ "error" \notin DOMAIN result
    /\ TierOf(result.recommendation) = "DO NOT TRAVEL"

\* the probabilities mapping, the slots, the destination and the user of the
\* arguments of a call of _extract_features, empty when absent
ArgProbs ==
    IF HasKey(args["model_outputs"], "nb")
    THEN Get(args["model_outputs"]["nb"][1], "probabilities", EmptyDict)
    ELSE EmptyDict
ArgSlots ==
    IF HasKey(args["model_outputs"], "bert")
    THEN Get(args["model_outputs"]["bert"][1], "slots", EmptyDict)
    ELSE EmptyDict
ArgSentiment ==
    IF HasKey(args["model_outputs"], "sentiment")
    THEN args["model_outputs"]["sentiment"][1]
    ELSE EmptyDict
ArgDest == Get(args["context"], "destination", EmptyDict)
ArgUser == Get(args["context"], "user", EmptyDict)

\* C7: _extract_features returns exactly 17 values, and every field the
\* caller supplied is at its fixed position: low, medium, high; symptom
\* count, duration, severity; fit, confidence; disease prevalence, weather
\* risk, altitude / 1000, air quality / 100; age group, vaccination coverage,
\* trip duration; two more values follow.
C7_SeventeenInOrder ==
    (op = "_extract_features" /\ ~escaped) =>
        /\ Len(features) = 17
        /\ HasKey(ArgProbs, "low") => features[1] = ArgProbs["low"]
        /\ HasKey(ArgProbs, "medium") => features[2] = ArgProbs["medium"]
        /\ HasKey(ArgProbs, "high") => features[3] = ArgProbs["high"]
        /\ HasKey(ArgSlots, "symptoms")
              => features[4] = Len(ArgSlots["symptoms"]) * 10000
        /\ HasKey(ArgSlots, "duration") => features[5] = ArgSlots["duration"]
        /\ HasKey(ArgSlots, "severity") => features[6] = ArgSlots["severity"]
        /\ HasKey(Get(ArgSentiment, "probabilities", EmptyDict), "fit")
              => features[7] = ArgSentiment["probabilities"]["fit"]
        /\ HasKey(ArgSentiment, "confidence")
              => features[8] = ArgSentiment["confidence"]
        /\ HasKey(ArgDest, "disease_prevalence")
              => features[9] = ArgDest["disease_prevalence"]
        /\ HasKey(ArgDest, "weather_risk")
              => features[10] = ArgDest["weather_risk"]
        /\ HasKey(ArgDest, "altitude_meters")
              => features[11] * 1000 = ArgDest["altitude_meters"]
        /\ HasKey(ArgDest, "air_quality_index")
              => features[12] * 100 = ArgDest["air_quality_index"]
        /\ HasKey(ArgUser, "age_group") => features[13] = ArgUser["age_group"]
        /\ HasKey(ArgUser, "vaccination_coverage")
              => features[14] = ArgUser["vaccination_coverage"]
        /\ HasKey(args["context"], "trip_duration_days")
              => features[15] = args["context"]["trip_duration_days"]

\* C7 witness: the self-test's inputs, every field present
C7_Witness ==
    /\ op = "_extract_features"
    /\ args["model_outputs"] = MainModelOutputs
    /\ args["context"] = MainContext
    /\ Len(features) = 17
    /\ features[5] = 30000
    /\ features[15] = 70000

\* C8 as claimed: the 16th feature is the high-risk probability (feature 3)
\* times the disease prevalence (feature 9); 0.12 in the end-to-end scenario.
C8_HighTimesDiseasePrevalence ==
    (op = "_extract_features" /\ ~escaped) =>
        /\ features[16] = (features[3] * features[9]) \div 10000
        /\ (args["model_outputs"] = MainModelOutputs /\ args["context"] = MainContext)
              => features[16] = 1200

\* C9 as claimed: the 17th feature is the age group (feature 13) times the
\* chronic-disease indicator times 0.1; 0.5 in the end-to-end scenario.
C9_AgeTimesChronic ==
    (op = "_extract_features" /\ ~escaped) =>
        /\ features[17] =
              IF Get(ArgUser, "has_chronic_disease", FALSE)
              THEN features[13] \div 10 ELSE 0
        /\ (args["model_outputs"] = MainModelOutputs /\ args["context"] = MainContext)
              => features[17] = 5000

\* C10 as claimed: with every sub-record absent and an empty context,
\* _extract_features does not fail and returns [0.33, 0.33, 0.33, 0, 0, 0.5,
\* 0.33, 0.5, 0.5, 0.3, 0, 0.5, 3, 0.7, 7, 0.165, 0].
C10_DefaultVector ==
    (op = "_extract_features" /\ args["model_outputs"] = EmptyDict
        /\ args["context"] = EmptyDict) =>
        /\ ~escaped
        /\ features = << 3300, 3300, 3300, 0, 0, 5000, 3300, 5000,
                         5000, 3000, 0, 5000, 30000, 7000, 70000, 1650, 0 >>

\* the value a feature takes from a field: the field's when present, the
\* documented default when absent
FieldOr(d, k, default) == IF k \in DOMAIN d THEN d[k] ELSE default

\* C11: _extract_features raises nothing for an absent slot, sentiment,
\* destination, user or trip field; each absent field takes its documented
\* default (symptom count 0, duration 0, severity 0.5, fit 0.33, confidence
\* 0.5, disease prevalence 0.5, weather risk 0.3, altitude 0 m, air quality
\* 50, age group 3, vaccination coverage 0.7, trip duration 7) whatever the
\* other fields are, and each present field is copied.
C11_AbsentFieldsTakeDefaults ==
    op = "_extract_features" =>
        /\ ~escaped
        /\ raised = "none"
        /\ features[4] = (IF HasKey(ArgSlots, "symptoms")
                          THEN Len(ArgSlots["symptoms"]) * 10000 ELSE 0)
        /\ features[5] = FieldOr(ArgSlots, "duration", 0)
        /\ features[6] = FieldOr(ArgSlots, "severity", 5000)
        /\ features[7] = FieldOr(Get(ArgSentiment, "probabilities", EmptyDict),
                                 "fit", 3300)
        /\ features[8] = FieldOr(ArgSentiment, "confidence", 5000)
        /\ features[9] = FieldOr(ArgDest, "disease_prevalence", 5000)
        /\ features[10] = FieldOr(ArgDest, "weather_risk", 3000)
        /\ features[11] * 1000 = FieldOr(ArgDest, "altitude_meters", 0)
        /\ features[12] * 100 = FieldOr(ArgDest, "air_quality_index", 500000)
        /\ features[12] = (IF HasKey(ArgDest, "air_quality_index")
                           THEN features[12] ELSE 5000)
        /\ features[13] = FieldOr(ArgUser, "age_group", 30000)
        /\ features[14] = FieldOr(ArgUser, "vaccination_coverage", 7000)
        /\ features[15] = FieldOr(args["context"], "trip_duration_days", 70000)

\* C11 witness: slots with a duration and no severity, a user with no age
\* group: the present field is copied next to the defaults
C11_Witness ==
    /\ op = "_extract_features"
    /\ ~escaped
    /\ HasKey(ArgSlots, "duration")
    /\ ~HasKey(ArgSlots, "severity")
    /\ HasKey(ArgUser, "vaccination_coverage")
    /\ ~HasKey(ArgUser, "age_group")
    /\ features[5] = 30000
    /\ features[6] = 5000
    /\ features[13] = 30000
    /\ features[14] = 8000

\* C12 as claimed: a risk-bucket feature is 0.33 whenever its probability is
\* not supplied: the risk sub-record or its probabilities mapping absent, or
\* the mapping present without the bucket's key.
C12_MissingBucketIsThird ==
    (op = "_extract_features" /\ ~escaped) =>
        /\ features[1] = FieldOr(ArgProbs, "low", 3300)
        /\ features[2] = FieldOr(ArgProbs, "medium", 3300)
        /\ features[3] = FieldOr(ArgProbs, "high", 3300)

\* the slots that hold a model in this state
LoadedNames ==
    {name \in {"xgb", "lgb", "mlp"} :
        (CASE name = "xgb" -> xgb_model
           [] name = "lgb" -> lgb_model
           [] name = "mlp" -> mlp_model) # "None"}

\* what the slot name predicted in this call
PredictionOf(name) ==
    LET i == CHOOSE j \in 1..Len(the_predictions) : the_predictions[j][1] = name
    IN  the_predictions[i][2]

\* 0.50 * xgb + 0.30 * lgb + 0.20 * mlp over the loaded slots, in 1/100
FixedWeightSum ==
    (IF "xgb" \in LoadedNames THEN (50 * PredictionOf("xgb")) \div 100 ELSE 0)
      + (IF "lgb" \in LoadedNames THEN (30 * PredictionOf("lgb")) \div 100 ELSE 0)
      + (IF "mlp" \in LoadedNames THEN (20 * PredictionOf("mlp")) \div 100 ELSE 0)

\* C13: when a slot is loaded, the ensemble score before the clip is the sum
\* over exactly the loaded slots of the fixed weight (0.50, 0.30, 0.20) times
\* the slot's prediction; an unloaded slot adds nothing and the weights are
\* not renormalised.
C13_WeightedSumOfLoadedSlots ==
    (Predicted /\ LoadedNames # {}) =>
        /\ {the_predictions[i][1] : i \in 1..Len(the_predictions)} = LoadedNames
        /\ Len(the_predictions) = Cardinality(LoadedNames)
        /\ pre_clip_score = FixedWeightSum

\* C13 witness: xgb unloaded, lgb and mlp both predict 80: the score before
\* the clip is 0.3 * 80 + 0.2 * 80 = 40
C13_Witness ==
    /\ Predicted
    /\ LoadedNames = {"lgb", "mlp"}
    /\ PredictionOf("lgb") = Pts(80)
    /\ PredictionOf("mlp") = Pts(80)
    /\ pre_clip_score = Pts(40)

\* C14: when no slot is loaded, so that no prediction is made, predict_score
\* returns score 75.0 with the band 65.0 to 85.0, PROCEED WITH CAUTION, an
\* empty model_ensemble and no error indicator.
C14_NeutralDefault ==
    (op \in {"predict_score", "predict_travel_score"} /\ raised = "none"
        /\ LoadedNames = {}) =>
        /\ ~escaped
        /\ the_predictions = << >>
        /\ result.score = 7500
        /\ result.uncertainty_lower = 6500
        /\ result.uncertainty_upper = 8500
        /\ TierOf(result.recommendation) = "PROCEED WITH CAUTION"
        /\ DOMAIN result.model_ensemble = {}
        /\ "error" \notin DOMAIN result

\* C14 witness: predict_score called with the three slots empty
C14_Witness ==
    /\ op = "predict_score"
    /\ xgb_model = "None" /\ lgb_model = "None" /\ mlp_model = "None"
    /\ raised = "none"
    /\ result.score = 7500
    /\ DOMAIN result.model_ensemble = {}

\* C16: for a non-empty list of attribution values _extract_top_reasons
\* returns at most 3 entries (the 3, or all when there are fewer, unless no
\* feature name is given), each the {feature, impact} of one feature of
\* its own with that feature's signed value, in non-increasing order of
\* absolute impact, and no feature left out has a larger absolute impact than
\* one that is returned.
C16_TopThreeByAbsoluteImpact ==
    (op = "_extract_top_reasons" /\ args["shap_values"] # << >>) =>
        LET shap_values == args["shap_values"]
            feature_names == args["feature_names"]
            reasons == result["reasons"]
            Magnitude(v) == IF v < 0 THEN 0 - v ELSE v
        IN  /\ Len(reasons) <= 3
            /\ \A n \in 1..(Len(reasons) - 1) :
                   Magnitude(reasons[n].impact) >= Magnitude(reasons[n + 1].impact)
            /\ \E idx \in [1..Len(reasons) -> 1..Len(shap_values)] :
                   /\ \A n, k \in 1..Len(reasons) : n # k => idx[n] # idx[k]
                   /\ \A n \in 1..Len(reasons) :
                          /\ reasons[n].impact = shap_values[idx[n]]
                          /\ idx[n] <= Len(feature_names)
                                => reasons[n].feature = feature_names[idx[n]]
                   /\ \A j \in 1..Len(shap_values) :
                          (\A n \in 1..Len(reasons) : idx[n] # j) =>
                              \A n \in 1..Len(reasons) :
                                  Magnitude(shap_values[j]) <= Magnitude(reasons[n].impact)
            /\ feature_names # << >>
                  => Len(reasons) = (IF Len(shap_values) < 3 THEN Len(shap_values) ELSE 3)

\* C16 witness: four values of which the negative one ranks first
C16_Witness ==
    /\ op = "_extract_top_reasons"
    /\ args["shap_values"] = <<1, 0 - 2, 0, 1>>
    /\ Len(args["feature_names"]) = 4
    /\ Len(result["reasons"]) = 3
    /\ result["reasons"][1] = [feature |-> "nb_medium", impact |-> 0 - 2]
    /\ result["reasons"][2] = [feature |-> "nb_low", impact |-> 1]
    /\ result["reasons"][3] = [feature |-> "symptom_count", impact |-> 1]

\* how the attribution step of a prediction ended: not asked for (no primary
\* model), unsupported (the Booster has no get_booster), raised (the
\* explainer raised and the exception was caught), or it returned values
Attribution ==
    IF xgb_model = "None" THEN "not asked"
    ELSE IF xgb_model = "booster" THEN "unsupported"
    ELSE IF IsNone(result.shap_values) THEN "raised"
    ELSE "values"

\* C17 as claimed: when attribution is unavailable, the top_reasons of the
\* record predict_travel_score returns is the empty list, and nothing is
\* raised.
C17_TopReasonsEmpty ==
    (op = "predict_travel_score" /\ raised = "none" /\ Attribution # "values") =>
        /\ ~escaped
        /\ Len(result.top_reasons) = 0

\* C17 as amended: when attribution is unavailable, the top_reasons of the
\* record predict_travel_score returns holds the placeholder message
\* 'Feature importance unavailable' and no {feature, impact} entry, and
\* nothing is raised.
C17_TopReasonsPlaceholder ==
    (op = "predict_travel_score" /\ raised = "none" /\ Attribution # "values") =>
        /\ ~escaped
        /\ "error" \notin DOMAIN result
        /\ result.top_reasons = <<"Feature importance unavailable">>

\* C17 witness: the explainer of a trained primary model raised
C17_Witness ==
    /\ op = "predict_travel_score"
    /\ raised = "none"
    /\ xgb_model = "trained"
    /\ Attribution = "raised"
    /\ Len(result.top_reasons) = 1

\* the recommendation string of a score whose upper bound is the score + 10
TierStringOf(score) ==
    IF score >= 8000 THEN "PROCEED: Low risk. Follow standard travel precautions."
    ELSE IF score >= 6000 THEN "PROCEED WITH CAUTION: Moderate risk. Extra precautions recommended."
    ELSE IF score >= 4000 THEN "POSTPONE: High risk. Significant concerns detected. Consult healthcare provider."
    ELSE "DO NOT TRAVEL: Critical risk. Travel strongly discouraged. Immediate medical attention required."

\* C18: the score, the bounds, the per-model predictions and the
\* recommendation of a prediction are fixed by what the models predicted,
\* the same whether the attribution returned values, raised, was unsupported
\* or was not asked for, and the record carries no 'error' field.
C18_AttributionChangesNothingElse ==
    (Predicted /\ Attribution \in {"values", "raised", "unsupported", "not asked"}) =>
        LET score == IF LoadedNames = {} THEN 7500
                     ELSE IF FixedWeightSum < 0 THEN 0
                     ELSE IF FixedWeightSum > 10000 THEN 10000
                     ELSE FixedWeightSum
        IN  /\ result.score = score
            /\ result.uncertainty_lower = score - 1000
            /\ result.uncertainty_upper = score + 1000
            /\ result.recommendation = TierStringOf(score)
            /\ DOMAIN result.model_ensemble = LoadedNames
            /\ \A name \in LoadedNames :
                   result.model_ensemble[name] = PredictionOf(name)
            /\ "error" \notin DOMAIN result

\* C18 witness: the explainer raised under a trained primary model and the
\* record is the prediction of the models
C18_Witness ==
    /\ op = "predict_travel_score"
    /\ Predicted
    /\ LoadedNames = {"xgb"}
    /\ xgb_model = "trained"
    /\ Attribution = "raised"
    /\ PredictionOf("xgb") = Pts(150)
    /\ result.score = 7500
    /\ "error" \notin DOMAIN result

\* C19: model_ensemble has a key for exactly the slots that predicted in
\* this call, and each value is the slot's raw prediction, neither weighted
\* nor clipped.
C19_ModelEnsembleIsRawPredictions ==
    Predicted =>
        /\ DOMAIN result.model_ensemble
              = {the_predictions[i][1] : i \in 1..Len(the_predictions)}
        /\ DOMAIN result.model_ensemble = LoadedNames
        /\ \A i \in 1..Len(the_predictions) :
               result.model_ensemble[the_predictions[i][1]] = the_predictions[i][2]

\* C19 witness: xgb predicted 150 and mlp -50; both are kept as predicted
\* while the score is 0.5 * 150 - 0.2 * 50 = 65
C19_Witness ==
    /\ Predicted
    /\ DOMAIN result.model_ensemble = {"xgb", "mlp"}
    /\ result.model_ensemble["xgb"] = Pts(150)
    /\ result.model_ensemble["mlp"] = 0 - Pts(50)
    /\ result.score = Pts(65)

\* C20 as claimed: every record predict_travel_score returns has the fields
\* score, uncertainty_lower, uncertainty_upper, recommendation,
\* model_ensemble and top_reasons, and has an 'error' string exactly when it
\* is the fallback record.
C20_RecordFields ==
    (op = "predict_travel_score" /\ ~escaped) =>
        /\ {"score", "uncertainty_lower", "uncertainty_upper", "recommendation",
            "model_ensemble", "top_reasons"} \subseteq DOMAIN result
        /\ ("error" \in DOMAIN result) <=> (raised # "none")

\* C21: in every sequence of calls, a call of predict_travel_score, whether
\* it returns a prediction or the fallback record, leaves the three model
\* slots and the scaler as they were before it (the ensemble weights and the
\* feature configuration are assigned at lines 48 and 62 only and are
\* definitions here), and the records it was called with are the caller's
\* records still: the features the call built are the features of those
\* records.
C21_ServiceStateUnchanged ==
    [][ (op = "idle" /\ op' = "predict_travel_score") =>
           /\ xgb_model' = xgb_model
           /\ lgb_model' = lgb_model
           /\ mlp_model' = mlp_model
           /\ scaler_fitted' = scaler_fitted
           /\ (raised' # "extract" =>
                 features' = ExtractFeatures(
                                ("nb" :> args'["nb_output"])
                                  @@ ("bert" :> args'["bert_output"])
                                  @@ ("sentiment" :> args'["sentiment_output"]),
                                args'["context"][1])) ]_vars

\* C21 witness: a call fell back because a trained model's predict raised,
\* and the slots are all still loaded
C21_Witness ==
    /\ op = "predict_travel_score"
    /\ raised = "predict"
    /\ "error" \in DOMAIN result
    /\ xgb_model = "trained"
    /\ lgb_model = "trained"
    /\ mlp_model = "trained"
    /\ scaler_fitted

\* C24: the record of a prediction made through predict_score never carries
\* the tier CONSULT DOCTOR: a score in [60, 80) comes with an upper bound of
\* at least 70 and is mapped to PROCEED WITH CAUTION, and the tier is one of
\* the four others.
C24_ConsultDoctorUnreachable ==
    Predicted =>
        LET tier == TierOf(result.recommendation)
        IN  /\ tier # "CONSULT DOCTOR"
            /\ tier \in {"PROCEED", "PROCEED WITH CAUTION", "POSTPONE", "DO NOT TRAVEL"}
            /\ (result.score >= Pts(60) /\ result.score < Pts(80)) =>
                   /\ result.uncertainty_upper >= Pts(70)
                   /\ tier = "PROCEED WITH CAUTION"

\* C24 witness: the lowest score of the band, 60.0, predicted by three
\* models, has upper bound 70.0 and is PROCEED WITH CAUTION
C24_Witness ==
    /\ op = "predict_score"
    /\ Predicted
    /\ Len(the_predictions) = 3
    /\ result.score = Pts(60)
    /\ result.uncertainty_upper = Pts(70)
    /\ TierOf(result.recommendation) = "PROCEED WITH CAUTION"

\* C25: a constructed model has its primary and secondary slots populated,
\* whatever files were on disk; right after construction the tertiary slot
\* is empty only when xgb_model.pkl and lgb_model.pkl were found and
\* mlp_model.pkl was not; and no prediction of predict_score on it comes
\* from the no-model branch (the list of predictions is never empty).
C25_PrimaryAndSecondaryPopulated ==
    /\ op # "new" =>
          /\ xgb_model # "None"
          /\ lgb_model # "None"
    /\ (op = "__init__" /\ mlp_model = "None") =>
          /\ {"xgb_model.pkl", "lgb_model.pkl"} \subseteq args["files"]
          /\ "mlp_model.pkl" \notin args["files"]
    /\ (op = "predict_score" /\ raised = "none") =>
          /\ Len(the_predictions) >= 2
          /\ pre_clip_score = WeightedSum(the_predictions)

\* C25 witness: only xgb_model.pkl was on disk, and all three slots hold
\* the default regressors
C25_Witness ==
    /\ op = "__init__"
    /\ args["files"] = {"xgb_model.pkl"}
    /\ xgb_model = "default"
    /\ lgb_model = "default"
    /\ mlp_model = "default"

\* C26 as claimed: after _load_models, a slot whose artifact file exists
\* holds the model loaded from that file.
C26_LoadedModelKept ==
    (op = "__init__" /\ ~escaped) =>
        /\ "xgb_model.pkl" \in args["files"] => xgb_model = "booster"
        /\ "lgb_model.pkl" \in args["files"] => lgb_model = "trained"
        /\ "mlp_model.pkl" \in args["files"] => mlp_model = "trained"

\* what predict_travel_score returns to a request running alone on the
\* service: the sequential computation of the record from the request's own
\* arguments and from what the scaler, the models and the explainer did in
\* its own calls
AloneRecord(t) ==
    LET step == PredictScoreRaised(ThreadModelOutputs(t), t.context, xgb_model,
                    lgb_model, mlp_model, scaler_fitted, t.transform_ok, t.outcome)
    IN  IF step = "none"
        THEN NormalRecord(ScoreRecord(xgb_model,
                 Predictions(xgb_model, lgb_model, mlp_model, t.outcome), t.shap))
        ELSE FallbackRecord(step)

\* two records have the same score, bounds, recommendation, per-model
\* predictions and top_reasons
SameRecord(a, b) ==
    /\ DOMAIN a = DOMAIN b
    /\ a.score = b.score
    /\ a.uncertainty_lower = b.uncertainty_lower
    /\ a.uncertainty_upper = b.uncertainty_upper
    /\ a.recommendation = b.recommendation
    /\ "model_ensemble" \in DOMAIN a => a.model_ensemble = b.model_ensemble
    /\ "shap_values" \in DOMAIN a => a.shap_values = b.shap_values
    /\ a.top_reasons = b.top_reasons

\* C22: with several requests interleaved step by step on one service, the
\* score, bounds, recommendation, per-model predictions and top_reasons each
\* request ends with are those it would get running alone.
C22_ConcurrentEqualsAlone ==
    \A r \in Requests :
        threads[r].pc = "done" => SameRecord(threads[r].result, AloneRecord(threads[r]))

\* C22 witness: request 1 has its record, a prediction, while request 2 is
\* between its predictions and its score with other predictions
C22_Witness ==
    /\ threads[1].pc = "done"
    /\ threads[1].raised = "none"
    /\ threads[1].result.score = Pts(100)
    /\ threads[2].pc = "explain"
    /\ threads[2].predictions # threads[1].predictions
    /\ Len(threads[2].predictions) = 3

\* C23: the vector every called model and the attribution step receive is
\* the transformed feature vector when the scaler is fitted and the feature
\* vector itself when it is not (so it differs from the feature vector
\* exactly when the scaler is fitted), and with an unfitted scaler no request
\* fails at the scaling step; when a prediction is made every loaded slot
\* and the attribution step have received it.
C23_ScaledIffFitted ==
    \A r \in Requests :
        LET t == threads[r]
        IN  /\ (~scaler_fitted => t.raised # "scale")
            /\ (t.pc \in {"predict", "explain", "metadata"}
                  \/ (t.pc \in {"except", "done"} /\ t.raised \in {"none", "predict"})) =>
                 /\ t.X_scaled = (IF scaler_fitted THEN Transform(t.X) ELSE t.X)
                 /\ (scaler_fitted <=> t.X_scaled # t.X)
                 /\ \A c \in DOMAIN t.received : t.received[c] = t.X_scaled
            /\ (t.pc \in {"metadata", "done"} /\ t.raised = "none") =>
                 DOMAIN t.received
                    = {LoadedSlots(xgb_model, lgb_model, mlp_model)[i] :
                          i \in 1..Len(LoadedSlots(xgb_model, lgb_model, mlp_model))}
                        \cup {"shap"}

\* C23 witness: with an unfitted scaler three models and the explainer
\* received the unscaled vector and the request got a prediction
C23_Witness ==
    /\ ~scaler_fitted
    /\ threads[2].pc = "done"
    /\ threads[2].raised = "none"
    /\ DOMAIN threads[2].received = {"xgb", "lgb", "mlp", "shap"}
    /\ threads[2].received["shap"] = threads[2].X
    /\ threads[2].X = ExtractFeatures(MainModelOutputs, MainContext)

\* a request that lacks a city or one of the three files
InvalidUpload(q) ==
    \/ q.current_city \in {PyNone, Some("")}
    \/ q.destination_city \in {PyNone, Some("")}
    \/ \E name \in {"responses", "current_city_diet", "destination_city_diet"} :
          name \notin DOMAIN q.files

\* C27 as claimed: the responses text a handler sends to the generative
\* service is the content of the responses file uploaded in its own request,
\* whatever the other handler does in between.
C27_SendsOwnResponses ==
    \A h \in Clients :
        ~IsNone(handlers[h].sent) =>
            handlers[h].sent[1][2] = handlers[h].files["responses"]

\* C28: a request that lacks current_city, destination_city or one of the
\* three files is answered 400, and at no point of its handling has its
\* handler written a file to the upload folder or called the generative
\* service.
C28_InvalidAnswered400First ==
    \A h \in Clients :
        (handlers[h].pc # "idle" /\ InvalidUpload(handlers[h])) =>
            /\ handlers[h].saved = {}
            /\ IsNone(handlers[h].sent)
            /\ handlers[h].pc \in {"check", "responded"}
            /\ handlers[h].pc = "responded" => handlers[h].status = 400

\* C28 witness: a request with both cities and without its destination diet
\* file was answered 400 while the folder is empty
C28_Witness ==
    /\ handlers[1].pc = "responded"
    /\ handlers[1].status = 400
    /\ handlers[1].body = "Missing necessary files"
    /\ handlers[1].current_city = Some("Pune")
    /\ DOMAIN handlers[1].files = {"responses", "current_city_diet"}
    /\ handlers[1].saved = {}
    /\ upload_folder = EmptyFolder

\* C29 as claimed: /summarize and /generalized-health-score answer 400
\* 'Invalid JSON data' whenever the parsed body is null or empty, as
\* /translate does, and a null body is never answered 500.
C29_NullBodyIs400 ==
    (op \in {"/summarize", "/generalized-health-score", "/translate"}
       /\ args["data"] \in {PyNone, Some(EmptyDict)}) =>
        /\ result.status = 400
        /\ result.key = "error"
        /\ result.text = "Invalid JSON data"

\* C30 as claimed: in every result of assess_fitness that is not the error
\* result, requires_escalation is true exactly when escalation_level is
\* MEDIUM, HIGH or CRITICAL, and a result with the safety_warning never has
\* escalation_level LOW.
C30_EscalationAgrees ==
    (op = "assess_fitness" /\ "error" \notin DOMAIN result) =>
        /\ result["requires_escalation"]
              <=> result["escalation_level"] \in {"MEDIUM", "HIGH", "CRITICAL"}
        /\ "safety_warning" \in DOMAIN result => result["escalation_level"] # "LOW"

====
